---- MODULE Spec2Model ----
(***************************************************************************)
(* Factory grid simulator: grid model (grid.ts), belt router               *)
(* (pathfinder.ts), routed score (scoring.ts) and the layout optimizer's   *)
(* commit logic (optimizer.ts).                                            *)
(*                                                                         *)
(* Encoding notes.  A JavaScript null/undefined direction is the string    *)
(* "NONE"; an optional result is a record with a boolean field (found /    *)
(* present / ok).  A JavaScript Map is a TLA+ function whose DOMAIN is the *)
(* key set.  The router's costs are kept as integers by doubling them      *)
(* (the crossing cost 0.5 becomes 1, a step 2, a turn 4): every value the  *)
(* code compares is a multiple of 0.5, so the order is unchanged.          *)
(***************************************************************************)
EXTENDS Integers, Sequences, FiniteSets, TLC

\* ------------------------------------------------------------------------
\* Bounds of the model
\* ------------------------------------------------------------------------
GridW == 5
GridH == 6
MaxPlaced == 2
MaxRestarts == 2
ElitePoolSize == 2
ExplorationSeeds == 1

\* ------------------------------------------------------------------------
\* types.ts
\* ------------------------------------------------------------------------
DIRECTIONS == <<"UP", "DOWN", "LEFT", "RIGHT">>
Direction == {"UP", "DOWN", "LEFT", "RIGHT"}
ORIENTATIONS == <<"NORTH", "EAST", "SOUTH", "WEST">>
Orientation == {"NORTH", "EAST", "SOUTH", "WEST"}

BaseW3x3 == 3
BaseH3x3 == 3
BaseW6x4 == 6
BaseH6x4 == 4
BaseW5x5 == 5
BaseH5x5 == 5
BaseW3x1 == 3
BaseH3x1 == 1

MACHINE_DIMS(type) ==
    CASE type = "3x3" -> [baseWidth |-> BaseW3x3, baseHeight |-> BaseH3x3]
      [] type = "6x4" -> [baseWidth |-> BaseW6x4, baseHeight |-> BaseH6x4]
      [] type = "5x5" -> [baseWidth |-> BaseW5x5, baseHeight |-> BaseH5x5]
      [] type = "3x1" -> [baseWidth |-> BaseW3x1, baseHeight |-> BaseH3x1]

getOrientedDimensions(machine) ==
    LET dims == MACHINE_DIMS(machine.type)
    IN  IF machine.orientation \in {"EAST", "WEST"}
        THEN [width |-> dims.baseHeight, height |-> dims.baseWidth]
        ELSE [width |-> dims.baseWidth, height |-> dims.baseHeight]

isImmovableMachineType(type) == type = "3x1"

getInputPortCount(machine) ==
    CASE machine.type = "3x1" -> 0
      [] machine.type = "3x3" -> 3
      [] machine.type = "6x4" -> 6
      [] machine.type = "5x5" -> 5

getOutputPortCount(machine) ==
    CASE machine.type = "3x1" -> 1
      [] machine.type = "3x3" -> 3
      [] machine.type = "6x4" -> 6
      [] machine.type = "5x5" -> 5

oppositeDirection(dir) ==
    CASE dir = "UP" -> "DOWN"
      [] dir = "DOWN" -> "UP"
      [] dir = "LEFT" -> "RIGHT"
      [] dir = "RIGHT" -> "LEFT"

directionToDelta(dir) ==
    CASE dir = "UP" -> [dx |-> 0, dy |-> -1]
      [] dir = "DOWN" -> [dx |-> 0, dy |-> 1]
      [] dir = "LEFT" -> [dx |-> -1, dy |-> 0]
      [] dir = "RIGHT" -> [dx |-> 1, dy |-> 0]

orientationToInputDirection_up(orientation) == "UP"

orientationToInputDirection(orientation) ==
    CASE orientation = "NORTH" -> "UP"
      [] orientation = "EAST" -> "RIGHT"
      [] orientation = "SOUTH" -> "DOWN"
      [] orientation = "WEST" -> "LEFT"

orientationToOutputDirection(orientation) ==
    oppositeDirection(orientationToInputDirection(orientation))

\* ------------------------------------------------------------------------
\* grid.ts
\* ------------------------------------------------------------------------
TilesOf(grid) == (0 .. grid.width - 1) \X (0 .. grid.height - 1)

Tiles == (0 .. GridW - 1) \X (0 .. GridH - 1)

EmptyCell == [type |-> "EMPTY", machineId |-> "NONE", beltConnectionIds |-> <<>>]

EmptyMap == [k \in {} |-> 0]

MapSet(map, key, value) ==
    [k \in DOMAIN map \cup {key} |-> IF k = key THEN value ELSE map[k]]

MapDelete(map, key) == [k \in DOMAIN map \ {key} |-> map[k]]

createGrid(width, height) ==
    [width |-> width,
     height |-> height,
     cells |-> [t \in (0 .. width - 1) \X (0 .. height - 1) |-> EmptyCell],
     machines |-> EmptyMap,
     connections |-> EmptyMap,
     beltPaths |-> EmptyMap,
     beltTileUsage |-> EmptyMap]

isInBounds(grid, x, y) == x >= 0 /\ y >= 0 /\ x < grid.width /\ y < grid.height

Footprint(machine) ==
    LET d == getOrientedDimensions(machine)
    IN  {<<machine.x + dx, machine.y + dy>> :
            dx \in 0 .. d.width - 1, dy \in 0 .. d.height - 1}

canPlaceMachine(grid, machine, ignoreId) ==
    \A t \in Footprint(machine) :
        /\ isInBounds(grid, t[1], t[2])
        /\ ~(grid.cells[t].type = "MACHINE" /\ grid.cells[t].machineId # ignoreId)

\* placeMachine: [ok, grid]; the cells of the footprint are overwritten
\* whatever they held (a BELT cell loses its belt list), and the machine map
\* entry of machine.id is set.
placeMachine(grid, machine) ==
    IF ~canPlaceMachine(grid, machine, "NONE")
    THEN [ok |-> FALSE, grid |-> grid]
    ELSE [ok |-> TRUE,
          grid |-> [grid EXCEPT
              !.cells = [t \in TilesOf(grid) |->
                  IF t \in Footprint(machine)
                  THEN [type |-> "MACHINE", machineId |-> machine.id,
                        beltConnectionIds |-> <<>>]
                  ELSE grid.cells[t]],
              !.machines = MapSet(grid.machines, machine.id,
                  [type |-> machine.type, x |-> machine.x, y |-> machine.y,
                   orientation |-> machine.orientation])]]

StoredMachine(grid, machineId) ==
    [id |-> machineId,
     type |-> grid.machines[machineId].type,
     x |-> grid.machines[machineId].x,
     y |-> grid.machines[machineId].y,
     orientation |-> grid.machines[machineId].orientation]

removeMachine(grid, machineId) ==
    IF machineId \notin DOMAIN grid.machines
    THEN grid
    ELSE [grid EXCEPT
              !.cells = [t \in TilesOf(grid) |->
                  IF t \in Footprint(StoredMachine(grid, machineId))
                  THEN EmptyCell
                  ELSE grid.cells[t]],
              !.machines = MapDelete(grid.machines, machineId)]

\* Math.round(i * (span - 1) / (count - 1)) on non-negative operands.
RoundDiv(num, den) == (2 * num + den) \div (2 * den)

Min(a, b) == IF a < b THEN a ELSE b
Max(a, b) == IF a > b THEN a ELSE b

buildFaceOffsets(count, span) ==
    IF count <= 0 THEN <<>>
    ELSE IF count = 1 THEN <<(span - 1) \div 2>>
    ELSE IF count >= span THEN [i \in 1 .. count |-> Min(span - 1, i - 1)]
    ELSE [i \in 1 .. count |-> RoundDiv((i - 1) * (span - 1), count - 1)]

getAnchorPorts(machine) ==
    LET d == getOrientedDimensions(machine)
        outputDirection == orientationToInputDirection(machine.orientation)
        centerX == machine.x + ((d.width - 1) \div 2)
        centerY == machine.y + ((d.height - 1) \div 2)
        px == CASE outputDirection = "LEFT" -> machine.x
                [] outputDirection = "RIGHT" -> machine.x + d.width - 1
                [] OTHER -> centerX
        py == CASE outputDirection = "UP" -> machine.y
                [] outputDirection = "DOWN" -> machine.y + d.height - 1
                [] OTHER -> centerY
    IN  [inputs |-> <<>>,
         outputs |-> <<[machineId |-> machine.id, portType |-> "OUTPUT", index |-> 0,
                        x |-> px, y |-> py, approachDirection |-> outputDirection]>>]

\* Port lists are 1-based sequences; the port with index i is element i + 1.
getMachinePorts(machine) ==
    IF machine.type = "3x1" THEN getAnchorPorts(machine)
    ELSE
    LET d == getOrientedDimensions(machine)
        faceSpan == IF machine.orientation \in {"NORTH", "SOUTH"} THEN d.width ELSE d.height
        inputOffsets == buildFaceOffsets(getInputPortCount(machine), faceSpan)
        outputOffsets == buildFaceOffsets(getOutputPortCount(machine), faceSpan)
        inputDir == orientationToInputDirection(machine.orientation)
        outputDir == orientationToOutputDirection(machine.orientation)
        o == machine.orientation
    IN  [inputs |-> [i \in 1 .. Len(inputOffsets) |->
            [machineId |-> machine.id, portType |-> "INPUT", index |-> i - 1,
             x |-> CASE o = "NORTH" -> machine.x + inputOffsets[i]
                     [] o = "SOUTH" -> machine.x + inputOffsets[i]
                     [] o = "EAST" -> machine.x + d.width - 1
                     [] o = "WEST" -> machine.x,
             y |-> CASE o = "NORTH" -> machine.y
                     [] o = "SOUTH" -> machine.y + d.height - 1
                     [] o = "EAST" -> machine.y + inputOffsets[i]
                     [] o = "WEST" -> machine.y + inputOffsets[i],
             approachDirection |-> inputDir]],
         outputs |-> [i \in 1 .. Len(outputOffsets) |->
            [machineId |-> machine.id, portType |-> "OUTPUT", index |-> i - 1,
             x |-> CASE o = "NORTH" -> machine.x + outputOffsets[i]
                     [] o = "SOUTH" -> machine.x + outputOffsets[i]
                     [] o = "EAST" -> machine.x
                     [] o = "WEST" -> machine.x + d.width - 1,
             y |-> CASE o = "NORTH" -> machine.y + d.height - 1
                     [] o = "SOUTH" -> machine.y
                     [] o = "EAST" -> machine.y + outputOffsets[i]
                     [] o = "WEST" -> machine.y + outputOffsets[i],
             approachDirection |-> outputDir]]]

getPortExternalTile(port) ==
    LET delta == directionToDelta(port.approachDirection)
    IN  [x |-> port.x + delta.dx, y |-> port.y + delta.dy]

\* ------------------------------------------------------------------------
\* minheap.ts (1-based: the parent of index i is i \div 2, its children are
\* 2i and 2i + 1); the comparator of the router is a.f - b.f
\* ------------------------------------------------------------------------
Swap(heap, i, j) == [heap EXCEPT ![i] = heap[j], ![j] = heap[i]]

RECURSIVE bubbleUp(_, _)
bubbleUp(heap, idx) ==
    IF idx <= 1 THEN heap
    ELSE LET parent == idx \div 2
         IN  IF heap[idx].f - heap[parent].f < 0
             THEN bubbleUp(Swap(heap, idx, parent), parent)
             ELSE heap

RECURSIVE sinkDown(_, _)
sinkDown(heap, idx) ==
    LET len == Len(heap)
        left == 2 * idx
        right == 2 * idx + 1
        s1 == IF left <= len /\ heap[left].f - heap[idx].f < 0 THEN left ELSE idx
        smallest == IF right <= len /\ heap[right].f - heap[s1].f < 0 THEN right ELSE s1
    IN  IF smallest # idx
        THEN sinkDown(Swap(heap, idx, smallest), smallest)
        ELSE heap

heapPush(heap, item) == bubbleUp(Append(heap, item), Len(heap) + 1)

\* pop: [top, heap]; called on a non-empty heap only
heapPop(heap) ==
    LET last == heap[Len(heap)]
        rest == SubSeq(heap, 1, Len(heap) - 1)
    IN  [top |-> heap[1],
         heap |-> IF Len(rest) > 0 THEN sinkDown([rest EXCEPT ![1] = last], 1) ELSE rest]

\* ------------------------------------------------------------------------
\* pathfinder.ts
\* ------------------------------------------------------------------------
Abs(n) == IF n < 0 THEN -n ELSE n

heuristic(ax, ay, bx, by) == Abs(ax - bx) + Abs(ay - by)

directionToAxis(direction) == IF direction \in {"LEFT", "RIGHT"} THEN "H" ELSE "V"

isCornerSegment(segment) ==
    IF segment.fromDirection = "NONE" \/ segment.toDirection = "NONE" THEN FALSE
    ELSE directionToAxis(segment.fromDirection) # directionToAxis(segment.toDirection)

getSegmentAxis(segment) ==
    IF segment.fromDirection # "NONE" /\ segment.toDirection # "NONE"
    THEN IF directionToAxis(segment.fromDirection) = directionToAxis(segment.toDirection)
         THEN directionToAxis(segment.fromDirection)
         ELSE "NONE"
    ELSE IF segment.fromDirection # "NONE" THEN directionToAxis(segment.fromDirection)
    ELSE IF segment.toDirection # "NONE" THEN directionToAxis(segment.toDirection)
    ELSE "NONE"

createEmptyOccupiedTileInfo == [cornerCount |-> 0, horizontalCount |-> 0, verticalCount |-> 0]

addSegmentToOccupiedTileInfo(info, segment) ==
    IF isCornerSegment(segment)
    THEN [info EXCEPT !.cornerCount = @ + 1]
    ELSE LET axis == getSegmentAxis(segment)
         IN  [info EXCEPT !.horizontalCount = IF axis = "H" THEN @ + 1 ELSE @,
                          !.verticalCount = IF axis = "V" THEN @ + 1 ELSE @]

RECURSIVE AddSegments(_, _, _)
AddSegments(info, segments, i) ==
    IF i > Len(segments) THEN info
    ELSE LET seg == segments[i]
             key == <<seg.x, seg.y>>
             entry == IF key \in DOMAIN info THEN info[key] ELSE createEmptyOccupiedTileInfo
         IN  AddSegments(MapSet(info, key, addSegmentToOccupiedTileInfo(entry, seg)),
                         segments, i + 1)

\* buildPathOccupiedInfo(grid.beltPaths.get(connectionId))
buildPathOccupiedInfo(grid, connectionId) ==
    IF connectionId \notin DOMAIN grid.beltPaths THEN EmptyMap
    ELSE AddSegments(EmptyMap, grid.beltPaths[connectionId], 1)

\* null is present = FALSE
getEffectiveOccupiedTileInfo(grid, excludedByConnection, x, y) ==
    LET key == <<x, y>>
        hasBase == key \in DOMAIN grid.beltTileUsage
        hasExcl == key \in DOMAIN excludedByConnection
        cornerCount == (IF hasBase THEN grid.beltTileUsage[key].cornerCount ELSE 0)
                       - (IF hasExcl THEN excludedByConnection[key].cornerCount ELSE 0)
        horizontalCount == (IF hasBase THEN grid.beltTileUsage[key].horizontalCount ELSE 0)
                       - (IF hasExcl THEN excludedByConnection[key].horizontalCount ELSE 0)
        verticalCount == (IF hasBase THEN grid.beltTileUsage[key].verticalCount ELSE 0)
                       - (IF hasExcl THEN excludedByConnection[key].verticalCount ELSE 0)
    IN  [present |-> ~(cornerCount <= 0 /\ horizontalCount <= 0 /\ verticalCount <= 0),
         cornerCount |-> cornerCount,
         horizontalCount |-> horizontalCount,
         verticalCount |-> verticalCount]

hasAxisUsage(info, axis) ==
    IF axis = "H" THEN info.horizontalCount > 0 ELSE info.verticalCount > 0

\* The move of the search from a node at (cx, cy) heading cdir to the
\* neighbour in direction dir is permitted (pathfinder.ts:382-400).
MovePermitted(grid, excludedByConnection, cx, cy, cdir, dir) ==
    LET delta == directionToDelta(dir)
        nx == cx + delta.dx
        ny == cy + delta.dy
        isTurn == cdir # "NONE" /\ cdir # dir
        currentOccupied == getEffectiveOccupiedTileInfo(grid, excludedByConnection, cx, cy)
        moveAxis == directionToAxis(dir)
    IN  /\ isInBounds(grid, nx, ny)
        /\ grid.cells[<<nx, ny>>].type # "MACHINE"
        /\ LET neighborOccupied ==
                   getEffectiveOccupiedTileInfo(grid, excludedByConnection, nx, ny)
           IN  neighborOccupied.present =>
                   /\ ~(neighborOccupied.cornerCount > 0)
                   /\ ~hasAxisUsage(neighborOccupied, moveAxis)
        /\ currentOccupied.present =>
               /\ ~isTurn
               /\ ~hasAxisUsage(currentOccupied, moveAxis)

\* reconstructPath with the incoming direction not reversed
reconstructPath_fromNotReversed(endNode, connectionId) ==
    LET chain == endNode.chain
        n == Len(chain)
    IN  [i \in 1 .. n |->
            [x |-> chain[i][1],
             y |-> chain[i][2],
             fromDirection |-> IF i > 1 THEN chain[i][3] ELSE "NONE",
             toDirection |->
                 IF i = n THEN "NONE"
                 ELSE LET dx == chain[i + 1][1] - chain[i][1]
                          dy == chain[i + 1][2] - chain[i][2]
                      IN  IF dx = 1 THEN "RIGHT"
                          ELSE IF dx = -1 THEN "LEFT"
                          ELSE IF dy = 1 THEN "DOWN"
                          ELSE IF dy = -1 THEN "UP"
                          ELSE "NONE"]]

\* A node carries its parent chain as the sequence of <<x, y, direction>>
\* from the start node to itself.
reconstructPath(endNode, connectionId) ==
    LET chain == endNode.chain
        n == Len(chain)
    IN  [i \in 1 .. n |->
            [x |-> chain[i][1],
             y |-> chain[i][2],
             fromDirection |-> IF i > 1 THEN oppositeDirection(chain[i][3]) ELSE "NONE",
             toDirection |->
                 IF i = n THEN "NONE"
                 ELSE LET dx == chain[i + 1][1] - chain[i][1]
                          dy == chain[i + 1][2] - chain[i][2]
                      IN  IF dx = 1 THEN "RIGHT"
                          ELSE IF dx = -1 THEN "LEFT"
                          ELSE IF dy = 1 THEN "DOWN"
                          ELSE IF dy = -1 THEN "UP"
                          ELSE "NONE"]]

Undefined == -1

StateKeys(grid) == TilesOf(grid) \X Direction

\* One pass of `for (const dir of DIRECTIONS)` from index i on: [open, gScores]
RECURSIVE ExpandNode(_, _, _, _, _, _, _, _)
ExpandNode(grid, excl, endT, current, closedSet, i, open, gScores) ==
    IF i > Len(DIRECTIONS) THEN [open |-> open, gScores |-> gScores]
    ELSE
    LET dir == DIRECTIONS[i]
        delta == directionToDelta(dir)
        nx == current.x + delta.dx
        ny == current.y + delta.dy
        neighborStateKey == <<<<nx, ny>>, dir>>
        skip == ExpandNode(grid, excl, endT, current, closedSet, i + 1, open, gScores)
    IN  IF neighborStateKey \in closedSet THEN skip
        ELSE IF ~MovePermitted(grid, excl, current.x, current.y, current.direction, dir)
        THEN skip
        ELSE
        LET isTurn == current.direction # "NONE" /\ current.direction # dir
            turnCost == IF isTurn THEN 4 ELSE 0
            crossingCost == IF grid.cells[<<nx, ny>>].type = "BELT" THEN 1 ELSE 0
            tentativeG == current.g + 2 + turnCost + crossingCost
            existingG == gScores[neighborStateKey]
        IN  IF existingG # Undefined /\ tentativeG >= existingG THEN skip
            ELSE ExpandNode(grid, excl, endT, current, closedSet, i + 1,
                     heapPush(open,
                         [x |-> nx, y |-> ny, g |-> tentativeG,
                          h |-> 2 * heuristic(nx, ny, endT.x, endT.y),
                          f |-> tentativeG + 2 * heuristic(nx, ny, endT.x, endT.y),
                          direction |-> dir,
                          chain |-> Append(current.chain, <<nx, ny, dir>>)]),
                     [gScores EXCEPT ![neighborStateKey] = tentativeG])

NoPath == [found |-> FALSE, segments |-> <<>>]

\* The one element of a set {e}: `v \in {e}` gives the value of e a name
\* that stands for the value, computed once.
Only(S) == CHOOSE v \in S : TRUE

\* The state key of a node: `${x},${y},${direction}`
StateKeyOf(node) == <<<<node.x, node.y>>, node.direction>>

\* The body of `while (openSet.size > 0) { ... }` after openSet.pop() on the
\* loop's variables s = [open, closedSet, gScores]; done and result record
\* the return
StepFrom(grid, excl, endT, connectionId, s, popped) ==
    IF popped.top.x = endT.x /\ popped.top.y = endT.y
    THEN [s EXCEPT !.done = TRUE,
                   !.result = [found |-> TRUE,
                               segments |-> reconstructPath(popped.top, connectionId)]]
    ELSE IF StateKeyOf(popped.top) \in s.closedSet
    THEN [s EXCEPT !.open = popped.heap]
    ELSE Only({[s EXCEPT !.open = ex.open,
                         !.closedSet = @ \cup {StateKeyOf(popped.top)},
                         !.gScores = ex.gScores] :
            ex \in {ExpandNode(grid, excl, endT, popped.top,
                               s.closedSet \cup {StateKeyOf(popped.top)}, 1,
                               popped.heap, s.gScores)}})

\* One pass of the loop, the test of its condition included
SearchStep(grid, excl, endT, connectionId, s) ==
    IF Len(s.open) = 0 THEN [s EXCEPT !.done = TRUE, !.result = NoPath]
    ELSE Only({StepFrom(grid, excl, endT, connectionId, s, popped) :
               popped \in {heapPop(s.open)}})

\* Up to n passes of the loop, by halves: the first half of the passes, then
\* the rest from the variables the first half leaves
RECURSIVE SearchRun(_, _, _, _, _, _)
SearchRun(grid, excl, endT, connectionId, s, n) ==
    IF s.done \/ n = 0 THEN s
    ELSE IF n = 1 THEN SearchStep(grid, excl, endT, connectionId, s)
    ELSE Only({SearchRun(grid, excl, endT, connectionId, half, n - n \div 2) :
               half \in {SearchRun(grid, excl, endT, connectionId, s, n \div 2)}})

\* while (openSet.size > 0) { ... }: every pass pops a node, and a state key
\* is expanded once and pushes at most four nodes
RECURSIVE SearchLoop(_, _, _, _, _, _, _)
SearchLoop(grid, excl, endT, connectionId, open, closedSet, gScores) ==
    Only({IF s.done THEN s.result
          ELSE SearchLoop(grid, excl, endT, connectionId, s.open, s.closedSet, s.gScores) :
        s \in {SearchRun(grid, excl, endT, connectionId,
                   [open |-> open, closedSet |-> closedSet, gScores |-> gScores,
                    done |-> FALSE, result |-> NoPath],
                   4 * Cardinality(StateKeys(grid)) + 1)}})

\* findBeltPath without the MACHINE test of the start tile
findBeltPath_startNotTested(grid, sourcePort, targetPort, connectionId) ==
    LET start == getPortExternalTile(sourcePort)
        endT == getPortExternalTile(targetPort)
    IN  IF ~isInBounds(grid, start.x, start.y) \/ ~isInBounds(grid, endT.x, endT.y) THEN NoPath
        ELSE IF grid.cells[<<endT.x, endT.y>>].type = "MACHINE" THEN NoPath
        ELSE
        LET excl == buildPathOccupiedInfo(grid, connectionId)
            startOccupied == getEffectiveOccupiedTileInfo(grid, excl, start.x, start.y)
            endOccupied == getEffectiveOccupiedTileInfo(grid, excl, endT.x, endT.y)
        IN  IF (startOccupied.present /\ startOccupied.cornerCount > 0)
               \/ (endOccupied.present /\ endOccupied.cornerCount > 0)
            THEN NoPath
            ELSE
            LET startDir == sourcePort.approachDirection
                startNode == [x |-> start.x, y |-> start.y, g |-> 0,
                              h |-> 2 * heuristic(start.x, start.y, endT.x, endT.y),
                              f |-> 2 * heuristic(start.x, start.y, endT.x, endT.y),
                              direction |-> startDir,
                              chain |-> <<<<start.x, start.y, startDir>>>>]
            IN  SearchLoop(grid, excl, endT, connectionId,
                    heapPush(<<>>, startNode), {},
                    [k \in StateKeys(grid) |->
                        IF k = <<<<start.x, start.y>>, startDir>> THEN 0 ELSE Undefined])

findBeltPath(grid, sourcePort, targetPort, connectionId) ==
    LET start == getPortExternalTile(sourcePort)
        endT == getPortExternalTile(targetPort)
    IN  IF ~isInBounds(grid, start.x, start.y) \/ ~isInBounds(grid, endT.x, endT.y) THEN NoPath
        ELSE IF grid.cells[<<start.x, start.y>>].type = "MACHINE" THEN NoPath
        ELSE IF grid.cells[<<endT.x, endT.y>>].type = "MACHINE" THEN NoPath
        ELSE
        LET excl == buildPathOccupiedInfo(grid, connectionId)
            startOccupied == getEffectiveOccupiedTileInfo(grid, excl, start.x, start.y)
            endOccupied == getEffectiveOccupiedTileInfo(grid, excl, endT.x, endT.y)
        IN  IF (startOccupied.present /\ startOccupied.cornerCount > 0)
               \/ (endOccupied.present /\ endOccupied.cornerCount > 0)
            THEN NoPath
            ELSE
            LET startDir == sourcePort.approachDirection
                startNode == [x |-> start.x, y |-> start.y, g |-> 0,
                              h |-> 2 * heuristic(start.x, start.y, endT.x, endT.y),
                              f |-> 2 * heuristic(start.x, start.y, endT.x, endT.y),
                              direction |-> startDir,
                              chain |-> <<<<start.x, start.y, startDir>>>>]
            IN  SearchLoop(grid, excl, endT, connectionId,
                    heapPush(<<>>, startNode), {},
                    [k \in StateKeys(grid) |->
                        IF k = <<<<start.x, start.y>>, startDir>> THEN 0 ELSE Undefined])

estimateBeltLength(sourcePort, targetPort) ==
    LET s == getPortExternalTile(sourcePort)
        t == getPortExternalTile(targetPort)
    IN  Abs(s.x - t.x) + Abs(s.y - t.y)

updateTileUsageForSegment(usage, segment, delta) ==
    LET key == <<segment.x, segment.y>>
        current == IF key \in DOMAIN usage THEN usage[key] ELSE createEmptyOccupiedTileInfo
        axis == getSegmentAxis(segment)
        bumped ==
            IF isCornerSegment(segment)
            THEN [current EXCEPT !.cornerCount = @ + delta]
            ELSE [current EXCEPT
                     !.horizontalCount = IF axis = "H" THEN @ + delta ELSE @,
                     !.verticalCount = IF axis = "V" THEN @ + delta ELSE @]
    IN  IF bumped.cornerCount <= 0 /\ bumped.horizontalCount <= 0
           /\ bumped.verticalCount <= 0
        THEN MapDelete(usage, key)
        ELSE MapSet(usage, key,
                 [cornerCount |-> Max(0, bumped.cornerCount),
                  horizontalCount |-> Max(0, bumped.horizontalCount),
                  verticalCount |-> Max(0, bumped.verticalCount)])

Includes(seq, e) == \E i \in 1 .. Len(seq) : seq[i] = e

RECURSIVE Filter(_, _)
Filter(seq, e) ==
    IF Len(seq) = 0 THEN <<>>
    ELSE IF seq[1] = e THEN Filter(Tail(seq), e)
    ELSE <<seq[1]>> \o Filter(Tail(seq), e)

\* for (const seg of path.segments) { ... } of applyBeltPath, from index i
RECURSIVE ApplySegments(_, _, _, _)
ApplySegments(grid, connectionId, segments, i) ==
    IF i > Len(segments) THEN grid
    ELSE
    LET seg == segments[i]
        t == <<seg.x, seg.y>>
        cell == grid.cells[t]
        cell2 == [cell EXCEPT
                     !.type = IF @ = "EMPTY" THEN "BELT" ELSE @,
                     !.beltConnectionIds =
                         IF Includes(@, connectionId) THEN @ ELSE Append(@, connectionId)]
    IN  ApplySegments(
            [grid EXCEPT !.cells[t] = cell2,
                         !.beltTileUsage = updateTileUsageForSegment(@, seg, 1)],
            connectionId, segments, i + 1)

applyBeltPath(grid, connectionId, segments) ==
    LET g2 == ApplySegments(grid, connectionId, segments, 1)
    IN  [g2 EXCEPT !.beltPaths = MapSet(@, connectionId, segments)]

RECURSIVE RemoveSegments(_, _, _, _)
RemoveSegments(grid, connectionId, segments, i) ==
    IF i > Len(segments) THEN grid
    ELSE
    LET seg == segments[i]
        t == <<seg.x, seg.y>>
        cell == grid.cells[t]
        ids == Filter(cell.beltConnectionIds, connectionId)
        cell2 == [cell EXCEPT
                     !.beltConnectionIds = ids,
                     !.type = IF Len(ids) = 0 /\ @ = "BELT" THEN "EMPTY" ELSE @]
    IN  RemoveSegments(
            [grid EXCEPT !.beltTileUsage = updateTileUsageForSegment(@, seg, -1),
                         !.cells[t] = cell2],
            connectionId, segments, i + 1)

removeBeltPath(grid, connectionId) ==
    IF connectionId \notin DOMAIN grid.beltPaths THEN grid
    ELSE LET g2 == RemoveSegments(grid, connectionId, grid.beltPaths[connectionId], 1)
         IN  [g2 EXCEPT !.beltPaths = MapDelete(@, connectionId)]

\* ------------------------------------------------------------------------
\* scoring.ts
\* ------------------------------------------------------------------------
\* The weights 1.0, 0.5 and 0.3 are kept as integers by scaling every total
\* score by ten.
BELT_WEIGHT == 10
AREA_WEIGHT == 5
CORNER_WEIGHT == 3

\* compareScoreBreakdownLexicographic (scoring.ts:116-131) on the whole
\* numbers that the three counts are: two of them differ by more than
\* SCORE_EPSILON exactly when they differ
compareScoreBreakdownLexicographic(a, b) ==
    IF a.totalBelts # b.totalBelts THEN a.totalBelts - b.totalBelts
    ELSE IF a.boundingBoxArea # b.boundingBoxArea
         THEN a.boundingBoxArea - b.boundingBoxArea
    ELSE IF a.cornerCount # b.cornerCount THEN a.cornerCount - b.cornerCount
    ELSE 0

RECURSIVE SumOver(_, _)
SumOver(keys, f) ==
    IF keys = {} THEN 0
    ELSE LET k == CHOOSE k \in keys : TRUE
         IN  f[k] + SumOver(keys \ {k}, f)

evaluateGrid(grid) ==
    LET occupied == {t \in TilesOf(grid) : grid.cells[t].type # "EMPTY"}
        minX == CHOOSE x \in {t[1] : t \in occupied} : \A t \in occupied : x <= t[1]
        maxX == CHOOSE x \in {t[1] : t \in occupied} : \A t \in occupied : x >= t[1]
        minY == CHOOSE y \in {t[2] : t \in occupied} : \A t \in occupied : y <= t[2]
        maxY == CHOOSE y \in {t[2] : t \in occupied} : \A t \in occupied : y >= t[2]
        paths == grid.beltPaths
        totalBelts == SumOver(DOMAIN paths, [c \in DOMAIN paths |-> Len(paths[c])])
        cornerCount == SumOver(DOMAIN paths, [c \in DOMAIN paths |->
            Cardinality({i \in 2 .. Len(paths[c]) :
                /\ paths[c][i - 1].toDirection # "NONE"
                /\ paths[c][i].toDirection # "NONE"
                /\ paths[c][i - 1].toDirection # paths[c][i].toDirection})])
        boundingBoxArea == IF occupied = {} THEN 0
                           ELSE (maxX - minX + 1) * (maxY - minY + 1)
    IN  [totalBelts |-> totalBelts,
         boundingBoxArea |-> boundingBoxArea,
         cornerCount |-> cornerCount,
         totalScore |-> totalBelts * BELT_WEIGHT + boundingBoxArea * AREA_WEIGHT
                        + cornerCount * CORNER_WEIGHT]

\* ------------------------------------------------------------------------
\* optimizer.ts
\* Machines and connections are arrays: sequences of records
\* [id, type, x, y, orientation] and
\* [id, sourceMachineId, sourcePortIndex, targetMachineId, targetPortIndex].
\* ------------------------------------------------------------------------
\* Infinity: beyond every distance and every score of the bounded grid
Infinity == 1000000

buildFixedMachineMap(machines) ==
    LET fixedIdx == {i \in DOMAIN machines : isImmovableMachineType(machines[i].type)}
    IN  [id \in {machines[i].id : i \in fixedIdx} |->
            machines[CHOOSE i \in fixedIdx :
                /\ machines[i].id = id
                /\ \A j \in fixedIdx : machines[j].id = id => j <= i]]

enforceFixedMachines(machines, fixedMachines) ==
    IF DOMAIN fixedMachines = {} THEN machines
    ELSE [i \in DOMAIN machines |->
            IF machines[i].id \in DOMAIN fixedMachines
            THEN [machines[i] EXCEPT
                     !.x = fixedMachines[machines[i].id].x,
                     !.y = fixedMachines[machines[i].id].y,
                     !.orientation = fixedMachines[machines[i].id].orientation]
            ELSE machines[i]]

\* new Map(machines.map((m) => [m.id, m])): the last machine of an id wins
MachineById(machines, id) ==
    machines[CHOOSE i \in DOMAIN machines :
        /\ machines[i].id = id
        /\ \A j \in DOMAIN machines : machines[j].id = id => j <= i]

HasMachine(machines, id) == \E i \in DOMAIN machines : machines[i].id = id

\* for (const m of machines) if (!placeMachine(grid, m)) return null
RECURSIVE PlaceAll(_, _, _)
PlaceAll(grid, machines, i) ==
    IF i > Len(machines) THEN [ok |-> TRUE, grid |-> grid]
    ELSE LET r == placeMachine(grid, machines[i])
         IN  IF r.ok THEN PlaceAll(r.grid, machines, i + 1)
             ELSE [ok |-> FALSE, grid |-> grid]

RECURSIVE SetConnections(_, _, _)
SetConnections(map, connections, i) ==
    IF i > Len(connections) THEN map
    ELSE SetConnections(MapSet(map, connections[i].id, connections[i]), connections, i + 1)

\* for (const conn of connections) { ... findBeltPath ... applyBeltPath }
RECURSIVE RouteAll(_, _, _)
RouteAll(grid, connections, i) ==
    IF i > Len(connections) THEN [ok |-> TRUE, grid |-> grid]
    ELSE IF connections[i].sourceMachineId \notin DOMAIN grid.machines
            \/ connections[i].targetMachineId \notin DOMAIN grid.machines
    THEN [ok |-> FALSE, grid |-> grid]
    ELSE Only({
        IF connections[i].sourcePortIndex + 1 \notin DOMAIN srcPorts
           \/ connections[i].targetPortIndex + 1 \notin DOMAIN tgtPorts
        THEN [ok |-> FALSE, grid |-> grid]
        ELSE Only({
            IF ~path.found THEN [ok |-> FALSE, grid |-> grid]
            ELSE Only({RouteAll(routed, connections, i + 1) :
                     routed \in {applyBeltPath(grid, connections[i].id, path.segments)}}) :
            path \in {findBeltPath(grid, srcPorts[connections[i].sourcePortIndex + 1],
                                   tgtPorts[connections[i].targetPortIndex + 1],
                                   connections[i].id)}}) :
        srcPorts \in {getMachinePorts(StoredMachine(grid, connections[i].sourceMachineId)).outputs},
        tgtPorts \in {getMachinePorts(StoredMachine(grid, connections[i].targetMachineId)).inputs}})

\* buildGrid: [ok, grid]; ok = FALSE is the null result
buildGrid(machines, connections) ==
    Only({
        IF ~placedAll.ok THEN [ok |-> FALSE, grid |-> createGrid(GridW, GridH)]
        ELSE Only({RouteAll(withConnections, connections, 1) :
                 withConnections \in {[placedAll.grid EXCEPT
                     !.connections = SetConnections(@, connections, 1)]}}) :
        placedAll \in {PlaceAll(createGrid(GridW, GridH), machines, 1)}})

\* cloneGridState builds a new grid state from the cells, the machine map,
\* the width, the height, the connection map and the belt-path map of the
\* original; the returned object has no beltTileUsage.
cloneGridState(grid) ==
    [width |-> grid.width,
     height |-> grid.height,
     cells |-> grid.cells,
     machines |-> grid.machines,
     connections |-> grid.connections,
     beltPaths |-> grid.beltPaths]

\* The ports other connections already use on the machines of conn
\* (tryDifferentPortAssignment, usedOutputPorts / usedInputPorts).
UsedPortsOfOthers(connections, conn, side) ==
    {IF side = "source" THEN connections[j].sourcePortIndex
                        ELSE connections[j].targetPortIndex :
        j \in {k \in DOMAIN connections :
                 /\ connections[k].id # conn.id
                 /\ IF side = "source"
                    THEN connections[k].sourceMachineId = conn.sourceMachineId
                    ELSE connections[k].targetMachineId = conn.targetMachineId}}

\* The nested loops `for si ... for ti ... if (dist < bestDist)`: the first
\* pair in (si, ti) order with the least estimate among the unused ports;
\* <<-1, -1>> when no pair is left (bestDist stays Infinity).
BestPortPair(src, tgt, srcUsed, tgtUsed) ==
    Only({Only({
        IF free = {} THEN <<-1, -1>>
        ELSE Only({CHOOSE p \in free :
                      \A q \in free :
                          \/ dist[p] < dist[q]
                          \/ /\ dist[p] = dist[q]
                             /\ (p[1] < q[1] \/ (p[1] = q[1] /\ p[2] <= q[2])) :
                 dist \in {[p \in free |->
                              estimateBeltLength(srcPorts[p[1] + 1], tgtPorts[p[2] + 1])]}}) :
        free \in {{p \in (0 .. getOutputPortCount(src) - 1)
                          \X (0 .. getInputPortCount(tgt) - 1) :
                     /\ p[1] \notin srcUsed /\ p[2] \notin tgtUsed
                     /\ p[1] + 1 \in DOMAIN srcPorts /\ p[2] + 1 \in DOMAIN tgtPorts}}}) :
        srcPorts \in {getMachinePorts(src).outputs},
        tgtPorts \in {getMachinePorts(tgt).inputs}})

\* tryDifferentPortAssignment with the connection that random() picks given
\* as its index k among the eligible connections.
tryDifferentPortAssignment(machines, connections, k, fixedMachineIds) ==
    IF k \notin {i \in DOMAIN connections :
                    \/ connections[i].sourceMachineId \notin fixedMachineIds
                    \/ connections[i].targetMachineId \notin fixedMachineIds}
    THEN connections
    ELSE IF ~HasMachine(machines, connections[k].sourceMachineId)
            \/ ~HasMachine(machines, connections[k].targetMachineId)
    THEN connections
    ELSE Only({
        IF getOutputPortCount(src) <= 0 \/ getInputPortCount(tgt) <= 0
        THEN connections
        ELSE Only({
            IF best = <<-1, -1>> THEN connections
            ELSE [connections EXCEPT
                     ![k] = [@ EXCEPT !.sourcePortIndex = best[1],
                                      !.targetPortIndex = best[2]]] :
            best \in {BestPortPair(src, tgt,
                          UsedPortsOfOthers(connections, connections[k], "source"),
                          UsedPortsOfOthers(connections, connections[k], "target"))}}) :
        src \in {MachineById(machines, connections[k].sourceMachineId)},
        tgt \in {MachineById(machines, connections[k].targetMachineId)}})

ConnectionEstimate(machines, conn) ==
    IF ~HasMachine(machines, conn.sourceMachineId)
       \/ ~HasMachine(machines, conn.targetMachineId)
    THEN Infinity
    ELSE LET srcPorts == getMachinePorts(MachineById(machines, conn.sourceMachineId)).outputs
             tgtPorts == getMachinePorts(MachineById(machines, conn.targetMachineId)).inputs
         IN  IF conn.sourcePortIndex + 1 \in DOMAIN srcPorts
                /\ conn.targetPortIndex + 1 \in DOMAIN tgtPorts
             THEN estimateBeltLength(srcPorts[conn.sourcePortIndex + 1],
                                     tgtPorts[conn.targetPortIndex + 1])
             ELSE Infinity

\* withEstimates.sort((a, b) => b.est - a.est): the indexes of the
\* connections, longest estimate first, equal estimates in array order.
RECURSIVE SortByEstimate(_, _)
SortByEstimate(est, todo) ==
    IF todo = {} THEN <<>>
    ELSE LET first == CHOOSE i \in todo :
                 \A j \in todo : est[i] > est[j] \/ (est[i] = est[j] /\ i <= j)
         IN  <<first>> \o SortByEstimate(est, todo \ {first})

\* The greedy loop of optimizePortAssignments over the sorted connections;
\* usedOut and usedIn map a machine id to the port indexes taken so far.
RECURSIVE AssignGreedy(_, _, _, _, _, _)
AssignGreedy(machines, conns, order, n, usedOut, usedIn) ==
    IF n > Len(order) THEN conns
    ELSE IF ~HasMachine(machines, conns[order[n]].sourceMachineId)
            \/ ~HasMachine(machines, conns[order[n]].targetMachineId)
    THEN AssignGreedy(machines, conns, order, n + 1, usedOut, usedIn)
    ELSE Only({
        IF getOutputPortCount(src) <= 0 \/ getInputPortCount(tgt) <= 0
        THEN AssignGreedy(machines, conns, order, n + 1, usedOut, usedIn)
        ELSE Only({Only({
            AssignGreedy(machines,
                [conns EXCEPT ![order[n]] =
                    [@ EXCEPT !.sourcePortIndex = best[1],
                              !.targetPortIndex = best[2]]],
                order, n + 1,
                MapSet(usedOut, src.id, srcUsed \cup {best[1]}),
                MapSet(usedIn, tgt.id, tgtUsed \cup {best[2]})) :
            best \in {IF BestPortPair(src, tgt, srcUsed, tgtUsed) = <<-1, -1>>
                      THEN <<conns[order[n]].sourcePortIndex,
                             conns[order[n]].targetPortIndex>>
                      ELSE BestPortPair(src, tgt, srcUsed, tgtUsed)}}) :
            srcUsed \in {IF src.id \in DOMAIN usedOut THEN usedOut[src.id] ELSE {}},
            tgtUsed \in {IF tgt.id \in DOMAIN usedIn THEN usedIn[tgt.id] ELSE {}}}) :
        src \in {MachineById(machines, conns[order[n]].sourceMachineId)},
        tgt \in {MachineById(machines, conns[order[n]].targetMachineId)}})

\* A connection that names a machine or a port that is not there
\* (optimizer.ts:2325-2341)
BrokenConnection(machines, conn) ==
    \/ ~HasMachine(machines, conn.sourceMachineId)
    \/ ~HasMachine(machines, conn.targetMachineId)
    \/ conn.sourcePortIndex + 1 \notin
           DOMAIN getMachinePorts(MachineById(machines, conn.sourceMachineId)).outputs
    \/ conn.targetPortIndex + 1 \notin
           DOMAIN getMachinePorts(MachineById(machines, conn.targetMachineId)).inputs

\* The tiles outside the two ports of a connection (optimizer.ts:2343-2344)
ConnectionEnds(machines, conn) ==
    [src |-> getPortExternalTile(
                 getMachinePorts(MachineById(machines, conn.sourceMachineId))
                     .outputs[conn.sourcePortIndex + 1]),
     tgt |-> getPortExternalTile(
                 getMachinePorts(MachineById(machines, conn.targetMachineId))
                     .inputs[conn.targetPortIndex + 1])]

MinOf(S) == CHOOSE x \in S : \A y \in S : x <= y

MaxOf(S) == CHOOSE x \in S : \A y \in S : x >= y

\* computeFastScoreBreakdown(...).totalScore: Manhattan estimate per connection,
\* bounding box over machine corners and port tiles; Infinity when a
\* connection names a machine or a port that is not there.
computeFastScore(machines, connections) ==
    IF \E i \in DOMAIN connections : BrokenConnection(machines, connections[i])
    THEN Infinity
    ELSE Only({Only({
        SumOver(DOMAIN connections,
                [i \in DOMAIN connections |->
                    Abs(ends[i].src.x - ends[i].tgt.x) + Abs(ends[i].src.y - ends[i].tgt.y)])
            * BELT_WEIGHT
        + (IF included = {} THEN 0
           ELSE (MaxOf({t[1] : t \in included}) - MinOf({t[1] : t \in included}) + 1)
                * (MaxOf({t[2] : t \in included}) - MinOf({t[2] : t \in included}) + 1))
            * AREA_WEIGHT
        + Cardinality({i \in DOMAIN connections :
                         /\ ends[i].src.x # ends[i].tgt.x
                         /\ ends[i].src.y # ends[i].tgt.y})
            * CORNER_WEIGHT :
        included \in {
            UNION {{<<machines[i].x, machines[i].y>>,
                    <<machines[i].x + getOrientedDimensions(machines[i]).width - 1,
                      machines[i].y + getOrientedDimensions(machines[i]).height - 1>>} :
                   i \in DOMAIN machines}
            \cup UNION {{<<ends[i].src.x, ends[i].src.y>>,
                         <<ends[i].tgt.x, ends[i].tgt.y>>} :
                        i \in DOMAIN connections}}}) :
        ends \in {[i \in DOMAIN connections |-> ConnectionEnds(machines, connections[i])]}})

\* scorePlacement's validity test: every machine in bounds, no two overlap
ValidPlacement(machines) ==
    /\ \A i \in DOMAIN machines :
          \A t \in Footprint(machines[i]) : t \in Tiles
    /\ \A i, j \in DOMAIN machines :
          i < j => Footprint(machines[i]) \cap Footprint(machines[j]) = {}

\* The penalties, like every score, are scaled by ten.
UNROUTABLE_BASE_PENALTY == 20000
UNROUTABLE_PER_CONNECTION_PENALTY == 600
UNROUTABLE_PER_MACHINE_PENALTY == 250

scorePlacement(machines, connections, useFast) ==
    IF ~ValidPlacement(machines) THEN Infinity
    ELSE IF useFast THEN computeFastScore(machines, connections)
    ELSE Only({
        IF result.ok THEN evaluateGrid(result.grid).totalScore
        ELSE IF fastScore = Infinity THEN Infinity
        ELSE fastScore + UNROUTABLE_BASE_PENALTY
             + Len(connections) * UNROUTABLE_PER_CONNECTION_PENALTY
             + Len(machines) * UNROUTABLE_PER_MACHINE_PENALTY :
        result \in {buildGrid(machines, connections)},
        fastScore \in {computeFastScore(machines, connections)}})

chooseConnectionAssignment(machines, originalConns, optimizedConns) ==
    Only({
        IF originalRouted.ok /\ optimizedRouted.ok
        THEN IF evaluateGrid(optimizedRouted.grid).totalScore
                    <= evaluateGrid(originalRouted.grid).totalScore
             THEN optimizedConns ELSE originalConns
        ELSE IF optimizedRouted.ok THEN optimizedConns
        ELSE IF originalRouted.ok THEN originalConns
        ELSE IF computeFastScore(machines, optimizedConns)
                    <= computeFastScore(machines, originalConns)
             THEN optimizedConns ELSE originalConns :
        originalRouted \in {buildGrid(machines, originalConns)},
        optimizedRouted \in {buildGrid(machines, optimizedConns)}})

\* optimizePortAssignments: the connections it leaves in the array it was
\* given (the machines it returns are a copy of its argument).
optimizePortAssignments(machines, connections) ==
    Only({chooseConnectionAssignment(machines, connections, optimizedConns) :
        optimizedConns \in {AssignGreedy(machines, connections,
            SortByEstimate([i \in DOMAIN connections |->
                               ConnectionEstimate(machines, connections[i])],
                           DOMAIN connections),
            1, EmptyMap, EmptyMap)}})

buildLayoutFingerprint(machines) ==
    {<<machines[i].id, machines[i].x, machines[i].y, machines[i].orientation>> :
        i \in DOMAIN machines}

\* eliteArchive.sort((a, b) => a.score - b.score) after a push: the archive
\* is sorted before the push, so the new entry goes behind the entries that
\* score no more than it.
InsertByScore(archive, entry) ==
    LET before == Cardinality({i \in DOMAIN archive : archive[i].score <= entry.score})
    IN  SubSeq(archive, 1, before) \o <<entry>> \o SubSeq(archive, before + 1, Len(archive))

RECURSIVE DropFingerprint(_, _)
DropFingerprint(archive, fingerprint) ==
    IF Len(archive) = 0 THEN <<>>
    ELSE IF archive[1].fingerprint = fingerprint
         THEN DropFingerprint(Tail(archive), fingerprint)
         ELSE <<archive[1]>> \o DropFingerprint(Tail(archive), fingerprint)

\* The elite archive options keep their defaults (optimizer.ts:610-612):
\* eliteDiversityHash = true and eliteMinDistance = 0, so no two layouts are
\* ever "too close" and only the fingerprint test applies.
ELITE_UNROUTED_PENALTY == 10000

\* rememberElite without the final splice
rememberElite_noSplice(archive, candidateMachines, candidateConnections, fixedMachines, elitePoolSize) ==
    IF elitePoolSize <= 0 THEN archive
    ELSE Only({Only({Only({
        IF score = Infinity THEN archive
        ELSE IF \E i \in DOMAIN archive :
                    archive[i].fingerprint = fingerprint /\ score >= archive[i].score
        THEN archive
        ELSE InsertByScore(DropFingerprint(archive, fingerprint),
                           [machines |-> machines,
                            connections |-> candidateConnections,
                            score |-> score,
                            fingerprint |-> fingerprint]) :
        score \in {IF routed.ok THEN evaluateGrid(routed.grid).totalScore
                   ELSE IF fastScore < Infinity
                        THEN fastScore + ELITE_UNROUTED_PENALTY
                        ELSE Infinity}}) :
        fingerprint \in {buildLayoutFingerprint(machines)},
        routed \in {buildGrid(machines, candidateConnections)},
        fastScore \in {scorePlacement(machines, candidateConnections, TRUE)}}) :
        machines \in {enforceFixedMachines(candidateMachines, fixedMachines)}})

\* rememberElite: the archive after offering it a candidate
rememberElite(archive, candidateMachines, candidateConnections, fixedMachines, elitePoolSize) ==
    IF elitePoolSize <= 0 THEN archive
    ELSE Only({Only({Only({
        IF score = Infinity THEN archive
        ELSE IF \E i \in DOMAIN archive :
                    archive[i].fingerprint = fingerprint /\ score >= archive[i].score
        THEN archive
        ELSE Only({IF Len(pushed) > elitePoolSize
                   THEN SubSeq(pushed, 1, elitePoolSize) ELSE pushed :
                 pushed \in {InsertByScore(DropFingerprint(archive, fingerprint),
                                 [machines |-> machines,
                                  connections |-> candidateConnections,
                                  score |-> score,
                                  fingerprint |-> fingerprint])}}) :
        score \in {IF routed.ok THEN evaluateGrid(routed.grid).totalScore
                   ELSE IF fastScore < Infinity
                        THEN fastScore + ELITE_UNROUTED_PENALTY
                        ELSE Infinity}}) :
        fingerprint \in {buildLayoutFingerprint(machines)},
        routed \in {buildGrid(machines, candidateConnections)},
        fastScore \in {scorePlacement(machines, candidateConnections, TRUE)}}) :
        machines \in {enforceFixedMachines(candidateMachines, fixedMachines)}})

\* rememberFallback: the best fallback after offering it a candidate
rememberFallback(best, candidateMachines, candidateConnections, fixedMachines) ==
    Only({Only({
        IF ~built.ok THEN best
        ELSE Only({IF score.totalScore < best.score.totalScore
                   THEN [grid |-> cloneGridState(built.grid), score |-> score]
                   ELSE best :
                 score \in {evaluateGrid(built.grid)}}) :
        built \in {buildGrid(machines, candidateConnections)}}) :
        machines \in {enforceFixedMachines(candidateMachines, fixedMachines)}})

\* for (const archived of incomingEliteArchive) rememberElite(...)
RECURSIVE LoadArchive(_, _, _, _, _)
LoadArchive(archive, incoming, i, fixedMachines, elitePoolSize) ==
    IF i > Len(incoming) THEN archive
    ELSE Only({LoadArchive(loaded, incoming, i + 1, fixedMachines, elitePoolSize) :
             loaded \in {rememberElite(archive, incoming[i].machines,
                                       incoming[i].connections, fixedMachines,
                                       elitePoolSize)}})

\* parseIncomingEliteArchive on well-typed entries: an entry without
\* machines or without connections is skipped
IsArchiveEntry(entry) == Len(entry.machines) > 0 /\ Len(entry.connections) > 0

parseIncomingEliteArchive(value) == SelectSeq(value, IsArchiveEntry)

\* serializeEliteArchive: the machines and connections of every entry
serializeEliteArchive(entries) ==
    [i \in DOMAIN entries |->
        [machines |-> entries[i].machines, connections |-> entries[i].connections]]

\* finalFallback without either comparison: the final layout wins when it builds
finalFallback_noComparison(best, polished, connections, baseline) ==
    Only({IF finalResult.ok
          THEN [grid |-> finalResult.grid, score |-> evaluateGrid(finalResult.grid)]
          ELSE best :
        finalResult \in {buildGrid(polished, connections)}})

\* The end of runOptimizer (optimizer.ts:571-582): the final layout replaces
\* the best fallback only when it builds and scores strictly less, and the
\* baseline replaces that when it scores strictly less.
finalFallback(best, polished, connections, baseline) ==
    Only({Only({
        IF baseline.score.totalScore < afterFinal.score.totalScore
        THEN baseline ELSE afterFinal :
        afterFinal \in {
            IF ~finalResult.ok THEN best
            ELSE Only({IF finalScore.totalScore < best.score.totalScore
                       THEN [grid |-> finalResult.grid, score |-> finalScore]
                       ELSE best :
                     finalScore \in {evaluateGrid(finalResult.grid)}})}}) :
        finalResult \in {buildGrid(polished, connections)}})

\* ------------------------------------------------------------------------
\* normalizeOptimizerConfig (optimizer.ts:601-742). A supplied value is
\* [type |-> "undefined"], a string, a boolean, a finite number or one of
\* NaN, Infinity and -Infinity, whose typeof is "number". Numbers are
\* counted in hundredths. The fixed SA schedules phase1SA and phase2SA are
\* left out.
\* ------------------------------------------------------------------------
Scale == 100

Absent == [type |-> "undefined"]
Str(s) == [type |-> "string", value |-> s]
Bool(b) == [type |-> "boolean", value |-> b]
Num(n) == [type |-> "number", value |-> n]
NonFinite == {[type |-> "NaN"], [type |-> "Infinity"], [type |-> "-Infinity"]}

\* typeof value === 'number' && Number.isFinite(value)
IsFiniteNumber(value) == value.type = "number"

\* Math.floor
Floor(n) == (n \div Scale) * Scale

\* The largest numbers stand beyond every number of the supplied values
POSITIVE_INFINITY == Infinity
MAX_SAFE_INTEGER == Infinity

pickPositiveInteger(value, fallback) ==
    IF ~IsFiniteNumber(value) THEN fallback ELSE Max(Scale, Floor(value.value))

pickNonNegativeInteger(value, fallback) ==
    IF ~IsFiniteNumber(value) THEN fallback ELSE Max(0, Floor(value.value))

pickPositiveNumber(value, fallback) ==
    IF ~IsFiniteNumber(value) THEN fallback
    ELSE IF value.value <= 0 THEN fallback ELSE value.value

pickNonNegativeNumber(value, fallback) ==
    IF ~IsFiniteNumber(value) THEN fallback
    ELSE IF value.value < 0 THEN fallback ELSE value.value

\* pickClampedNumber that falls back outside the range
pickClampedNumber_fallbackOutside(value, fallback, min, max) ==
    IF ~IsFiniteNumber(value) THEN fallback
    ELSE IF value.value < min \/ value.value > max THEN fallback ELSE value.value

pickClampedNumber(value, fallback, min, max) ==
    IF ~IsFiniteNumber(value) THEN fallback ELSE Max(min, Min(max, value.value))

pickBoolean(value, fallback) ==
    IF value.type # "boolean" THEN fallback ELSE value.value

pickSeed(value) ==
    IF ~IsFiniteNumber(value) THEN <<>> ELSE <<value.value \div Scale>>

OptionDefaults(mode) ==
    IF mode = "deep"
    THEN [timeBudgetMs |-> 7000 * Scale, phase1Restarts |-> 3 * Scale,
          phase2Attempts |-> 3 * Scale, localPolishPasses |-> 3 * Scale,
          useExplorationSeeds |-> FALSE, elitePoolSize |-> 12 * Scale,
          eliteDiversityHash |-> TRUE, eliteMinDistance |-> 0, largeMoveRate |-> 20,
          clusterMoveMinSize |-> 2 * Scale, clusterMoveMaxSize |-> 5 * Scale,
          adaptiveOps |-> TRUE, adaptiveWindow |-> 120 * Scale,
          adaptiveWarmupIterations |-> 0, adaptiveMaxOperatorProb |-> Scale,
          adaptiveStagnationResetWindow |-> MAX_SAFE_INTEGER,
          adaptiveFlattenFactor |-> 0, persistEliteArchive |-> FALSE,
          largeMoveRateEarly |-> 20, largeMoveRateLate |-> 20,
          largeMoveCooldownAfterImprove |-> 0, criticalNetRate |-> 0,
          repairBeamWidth |-> Scale]
    ELSE [timeBudgetMs |-> POSITIVE_INFINITY, phase1Restarts |-> Scale,
          phase2Attempts |-> Scale, localPolishPasses |-> Scale,
          useExplorationSeeds |-> TRUE, elitePoolSize |-> 8 * Scale,
          eliteDiversityHash |-> TRUE, eliteMinDistance |-> 0, largeMoveRate |-> 12,
          clusterMoveMinSize |-> 2 * Scale, clusterMoveMaxSize |-> 4 * Scale,
          adaptiveOps |-> FALSE, adaptiveWindow |-> 100 * Scale,
          adaptiveWarmupIterations |-> 0, adaptiveMaxOperatorProb |-> Scale,
          adaptiveStagnationResetWindow |-> MAX_SAFE_INTEGER,
          adaptiveFlattenFactor |-> 0, persistEliteArchive |-> FALSE,
          largeMoveRateEarly |-> 12, largeMoveRateLate |-> 12,
          largeMoveCooldownAfterImprove |-> 0, criticalNetRate |-> 0,
          repairBeamWidth |-> Scale]

\* config.mode === 'deep' ? 'deep' : 'normal'
ModeOf(c) == IF c.mode = Str("deep") THEN "deep" ELSE "normal"

normalizeOptimizerConfig(c) ==
    Only({Only({
        [mode |-> ModeOf(c),
         timeBudgetMs |-> pickPositiveNumber(c.timeBudgetMs, defaults.timeBudgetMs),
         phase1Restarts |-> pickPositiveInteger(c.phase1Restarts, defaults.phase1Restarts),
         phase2Attempts |-> pickPositiveInteger(c.phase2Attempts, defaults.phase2Attempts),
         localPolishPasses |->
             pickPositiveInteger(c.localPolishPasses, defaults.localPolishPasses),
         useExplorationSeeds |->
             pickBoolean(c.useExplorationSeeds, defaults.useExplorationSeeds),
         elitePoolSize |-> pickPositiveInteger(c.elitePoolSize, defaults.elitePoolSize),
         eliteDiversityHash |->
             pickBoolean(c.eliteDiversityHash, defaults.eliteDiversityHash),
         eliteMinDistance |->
             pickNonNegativeNumber(c.eliteMinDistance, defaults.eliteMinDistance),
         largeMoveRate |-> largeMoveRate,
         clusterMoveMinSize |->
             pickPositiveInteger(c.clusterMoveMinSize, defaults.clusterMoveMinSize),
         clusterMoveMaxSize |->
             pickPositiveInteger(c.clusterMoveMaxSize, defaults.clusterMoveMaxSize),
         adaptiveOps |-> pickBoolean(c.adaptiveOps, defaults.adaptiveOps),
         adaptiveWindow |-> pickPositiveInteger(c.adaptiveWindow, defaults.adaptiveWindow),
         adaptiveWarmupIterations |->
             pickNonNegativeInteger(c.adaptiveWarmupIterations,
                                    defaults.adaptiveWarmupIterations),
         adaptiveMaxOperatorProb |->
             pickClampedNumber(c.adaptiveMaxOperatorProb,
                               defaults.adaptiveMaxOperatorProb, 12, Scale),
         adaptiveStagnationResetWindow |->
             pickNonNegativeInteger(c.adaptiveStagnationResetWindow,
                                    defaults.adaptiveStagnationResetWindow),
         adaptiveFlattenFactor |->
             pickClampedNumber(c.adaptiveFlattenFactor, defaults.adaptiveFlattenFactor,
                               0, Scale),
         persistEliteArchive |->
             pickBoolean(c.persistEliteArchive, defaults.persistEliteArchive),
         largeMoveRateEarly |->
             pickClampedNumber(c.largeMoveRateEarly, largeMoveRate, 0, 70),
         largeMoveRateLate |->
             pickClampedNumber(c.largeMoveRateLate, largeMoveRate, 0, 70),
         largeMoveCooldownAfterImprove |->
             pickNonNegativeInteger(c.largeMoveCooldownAfterImprove,
                                    defaults.largeMoveCooldownAfterImprove),
         criticalNetRate |->
             pickClampedNumber(c.criticalNetRate, defaults.criticalNetRate, 0,
                               largeMoveRate),
         repairBeamWidth |->
             pickPositiveInteger(c.repairBeamWidth, defaults.repairBeamWidth),
         seed |-> pickSeed(c.seed)] :
        largeMoveRate \in {pickClampedNumber(c.largeMoveRate, defaults.largeMoveRate,
                                             0, 60)}}) :
        defaults \in {OptionDefaults(ModeOf(c))}})

\* ------------------------------------------------------------------------
\* The random stream of a run. A PRNG is [seeded, hi, lo]: the 32-bit state
\* of the linear-congruential generator in two 16-bit halves, or seeded =
\* FALSE for Math.random, whose draws are arbitrary. A seed is <<>>
\* (undefined) or <<n>>.
\* ------------------------------------------------------------------------
Half == 256 * 256

\* createSeededRandom: (seed >>> 0) || 0x6d2b79f5 for a seed 0 <= n < 2^31
createSeededRandom_ignoresSeed(seed) == [seeded |-> FALSE, hi |-> 0, lo |-> 0]

createSeededRandom(seed) ==
    IF seed = <<>> THEN [seeded |-> FALSE, hi |-> 0, lo |-> 0]
    ELSE IF seed[1] = 0 THEN [seeded |-> TRUE, hi |-> 27947, lo |-> 31221]
    ELSE [seeded |-> TRUE, hi |-> seed[1] \div Half, lo |-> seed[1] % Half]

\* state = (state * 1664525 + 1013904223) >>> 0, with 1664525 = 25 * 2^16 +
\* 26125 and 1013904223 = 15470 * 2^16 + 62303
NextRandom(r) ==
    IF ~r.seeded THEN r
    ELSE [seeded |-> TRUE,
          hi |-> (r.hi * 26125 + r.lo * 25 + (r.lo * 26125 + 62303) \div Half + 15470) % Half,
          lo |-> (r.lo * 26125 + 62303) % Half]

\* Math.floor(random() * n) for the draw that leaves the generator in state
\* r: floor(state * n / 2^32)
RandomIndex(r, n) == (r.hi * n + (r.lo * n) \div Half) \div Half

\* Math.min(n - 1, Math.floor(Math.pow(random(), 1.6) * n)) for n <= 3: the
\* draw reaches index k when state / 2^32 >= (k / n)^(1 / 1.6)
ArchiveIndex(r, n) ==
    IF n = 2 THEN (IF r.hi >= 42495 THEN 1 ELSE 0)
    ELSE IF n = 3 THEN (IF r.hi >= 50865 THEN 2 ELSE IF r.hi >= 32982 THEN 1 ELSE 0)
    ELSE 0

\* The n-th element (from 0) of a finite set in a fixed order
RECURSIVE Nth(_, _)
Nth(S, n) ==
    LET first == CHOOSE x \in S : TRUE
    IN  IF n = 0 THEN first ELSE Nth(S \ {first}, n - 1)

\* ------------------------------------------------------------------------
\* State: the shared grid of the editor (scoring.ts:173-176, `let grid`)
\* ------------------------------------------------------------------------
VARIABLES grid, placed, pc, input, connections, phaseBest, phaseBestScore, phaseSeed,
          round, expired, bestFallback, eliteArchive, bestSeedFastScore,
          bestSeedRoutedScore, rng, totalIter, history, isOptimizerRunning,
          deepSearchActive, stopDeepSearchRequested, deepSearchEliteArchive, bestScore,
          idleMs, cycles, rawConfig, config, sa

vars == <<grid, placed, pc, input, connections, phaseBest, phaseBestScore, phaseSeed,
          round, expired, bestFallback, eliteArchive, bestSeedFastScore,
          bestSeedRoutedScore, rng, totalIter, history, isOptimizerRunning,
          deepSearchActive, stopDeepSearchRequested, deepSearchEliteArchive, bestScore,
          idleMs, cycles, rawConfig, config, sa>>

\* The state of the optimize commands of the editor (scoring.ts:181-192 and
\* the locals of runAutoOptimize) and the results of the earlier calls of
\* runOptimizer
configVars == <<rawConfig, config, sa>>

searchVars == <<history, isOptimizerRunning, deepSearchActive, stopDeepSearchRequested,
                deepSearchEliteArchive, bestScore, idleMs, cycles, configVars>>

\* The locals of an optimizer run (declared with runOptimizer below) and the
\* state of the optimize commands
optVars == <<pc, input, connections, phaseBest, phaseBestScore, phaseSeed, round,
             expired, bestFallback, eliteArchive, bestSeedFastScore,
             bestSeedRoutedScore, rng, totalIter, searchVars>>

\* No optimize command is running and runOptimizer has not been called before
SearchIdle ==
    /\ history = <<>>
    /\ isOptimizerRunning = FALSE
    /\ deepSearchActive = FALSE
    /\ stopDeepSearchRequested = FALSE
    /\ deepSearchEliteArchive = <<>>
    /\ bestScore = 0
    /\ idleMs = 0
    /\ cycles = 0
    /\ rawConfig = <<>>
    /\ config = <<>>
    /\ sa = <<>>

\* No optimizer run is in progress
OptIdle ==
    /\ pc = "idle"
    /\ input = [machines |-> <<>>, connections |-> <<>>, grid |-> createGrid(GridW, GridH),
                mode |-> "normal", persistEliteArchive |-> FALSE,
                incomingEliteArchive |-> <<>>, seed |-> <<>>]
    /\ rng = createSeededRandom(<<>>)
    /\ totalIter = 0
    /\ SearchIdle
    /\ connections = <<>>
    /\ phaseBest = <<>>
    /\ phaseBestScore = Infinity
    /\ phaseSeed = <<>>
    /\ round = 0
    /\ expired = FALSE
    /\ bestFallback = [grid |-> createGrid(GridW, GridH), score |-> evaluateGrid(createGrid(GridW, GridH))]
    /\ eliteArchive = <<>>
    /\ bestSeedFastScore = Infinity
    /\ bestSeedRoutedScore = Infinity

MachineIds == {"m1", "m2"}
MachineTypes == {"3x3", "3x1"}
ConnectionIds == {"c1", "c2"}

\* ------------------------------------------------------------------------
\* Placing and removing machines on an empty grid; placed counts the calls
\* of placeMachine, of which a run makes at most MaxPlaced
\* ------------------------------------------------------------------------
InitGrid ==
    /\ grid = createGrid(GridW, GridH)
    /\ placed = 0
    /\ OptIdle

\* placeMachine(grid, machine); a failed place leaves the grid as it was
PlaceMachine(id, type, x, y, o) ==
    /\ placed < MaxPlaced
    /\ grid' = placeMachine(grid, [id |-> id, type |-> type, x |-> x, y |-> y,
                                   orientation |-> o]).grid
    /\ placed' = placed + 1
    /\ UNCHANGED optVars

\* removeMachine(grid, id)
RemoveMachine(id) ==
    /\ grid' = removeMachine(grid, id)
    /\ UNCHANGED <<placed, optVars>>

NextGrid ==
    \/ \E id \in MachineIds, type \in MachineTypes, x \in 0 .. GridW - 1,
          y \in 0 .. GridH - 1, o \in Orientation : PlaceMachine(id, type, x, y, o)
    \/ \E id \in MachineIds : RemoveMachine(id)

SpecGrid == InitGrid /\ [][NextGrid]_vars

\* ------------------------------------------------------------------------
\* Routing on a placed layout: a 3x3 machine m1 and two anchors m2, m3
\* ------------------------------------------------------------------------
RouteMachine1 == [id |-> "m1", type |-> "3x3", x |-> 1, y |-> 3, orientation |-> "NORTH"]

\* The poses with one of the given orientations in which an anchor fits the
\* grid beside m1
AnchorPoses(orientations) ==
    {p \in [x : 0 .. GridW - 1, y : 0 .. GridH - 1, orientation : orientations] :
        LET fp == Footprint([type |-> "3x1", x |-> p.x, y |-> p.y,
                             orientation |-> p.orientation])
        IN  /\ \A t \in fp : t \in Tiles
            /\ fp \cap Footprint(RouteMachine1) = {}}

Anchor(id, p) ==
    [id |-> id, type |-> "3x1", x |-> p.x, y |-> p.y, orientation |-> p.orientation]

BuildLayout(p2, p3) ==
    placeMachine(
        placeMachine(placeMachine(createGrid(GridW, GridH), RouteMachine1).grid, Anchor("m2", p2)).grid,
        Anchor("m3", p3))

\* m2 lies flat (its port faces up or down), m3 stands upright (its port
\* faces left or right)
RouteLayouts ==
    {BuildLayout(l[1], l[2]).grid :
        l \in {q \in AnchorPoses({"NORTH", "SOUTH"}) \X AnchorPoses({"EAST", "WEST"}) :
                  BuildLayout(q[1], q[2]).ok}}

InitRoute ==
    /\ grid \in RouteLayouts
    /\ placed = 3
    /\ OptIdle

\* The source machine of each connection; its target is m1
RouteSource(c) == IF c = "c1" THEN "m2" ELSE "m3"

\* The ports of a connection: output 0 of its source, input ti of m1
SourcePort(g, c) == getMachinePorts(StoredMachine(g, RouteSource(c))).outputs[1]

TargetPort(g, ti) == getMachinePorts(StoredMachine(g, "m1")).inputs[ti + 1]

\* One connection of rerouteConnectionBelts / importLayout: find_belt_path
\* for the ports, then apply_belt_path when a path is returned
Route(c, ti) ==
    LET srcPorts == getMachinePorts(StoredMachine(grid, RouteSource(c))).outputs
        tgtPorts == getMachinePorts(StoredMachine(grid, "m1")).inputs
        path == findBeltPath(grid, srcPorts[1], tgtPorts[ti + 1], c)
    IN  /\ ti + 1 \in DOMAIN tgtPorts
        /\ grid' = IF path.found THEN applyBeltPath(grid, c, path.segments) ELSE grid
        /\ UNCHANGED <<placed, optVars>>

\* remove_belt_path(grid, connectionId)
Unroute(c) ==
    /\ grid' = removeBeltPath(grid, c)
    /\ UNCHANGED <<placed, optVars>>

NextRoute ==
    \/ \E c \in ConnectionIds, ti \in 0 .. 2 : Route(c, ti)
    \/ \E c \in ConnectionIds : Unroute(c)

SpecRoute == InitRoute /\ [][NextRoute]_vars

\* ------------------------------------------------------------------------
\* Editing a routed layout: connecting ports, deleting a machine with the
\* editor's delete tool, and removing a machine with removeMachine alone
\* ------------------------------------------------------------------------
\* The layouts in which the editing starts: m2 in the top row, m3 in the
\* leftmost column
EditLayouts == {g \in RouteLayouts : g.machines["m2"].y = 0 /\ g.machines["m3"].x = 0}

InitEdit ==
    /\ grid \in EditLayouts
    /\ placed = 3
    /\ OptIdle

isPortInUse(g, machineId, portIndex, side) ==
    \E id \in DOMAIN g.connections :
        \/ /\ side = "input"
           /\ g.connections[id].targetMachineId = machineId
           /\ g.connections[id].targetPortIndex = portIndex
        \/ /\ side = "output"
           /\ g.connections[id].sourceMachineId = machineId
           /\ g.connections[id].sourcePortIndex = portIndex

\* handleConnect, both clicks: the output port 0 of the source of c, then the
\* input port ti of m1. The connection is entered in the map, routed, and
\* taken out of the map again when no path is found.
HandleConnect(c, ti) ==
    /\ c \notin DOMAIN grid.connections
    /\ RouteSource(c) \in DOMAIN grid.machines
    /\ "m1" \in DOMAIN grid.machines
    /\ ~isPortInUse(grid, RouteSource(c), 0, "output")
    /\ ~isPortInUse(grid, "m1", ti, "input")
    /\ \E withConnection \in {[grid EXCEPT !.connections = MapSet(@, c,
              [id |-> c, sourceMachineId |-> RouteSource(c), sourcePortIndex |-> 0,
               targetMachineId |-> "m1", targetPortIndex |-> ti])]} :
       \E path \in {findBeltPath(withConnection, SourcePort(grid, c),
                                 TargetPort(grid, ti), c)} :
           grid' = IF path.found
                   THEN applyBeltPath(withConnection, c, path.segments)
                   ELSE grid
    /\ UNCHANGED <<placed, optVars>>

\* for (const id of toRemove) { removeBeltPath(grid, id); grid.connections.delete(id) }
RECURSIVE RemoveConnections(_, _)
RemoveConnections(g, toRemove) ==
    IF toRemove = {} THEN g
    ELSE LET id == CHOOSE c \in toRemove : TRUE
         IN  RemoveConnections(
                 [removeBeltPath(g, id) EXCEPT !.connections = MapDelete(@, id)],
                 toRemove \ {id})

\* handleDelete on a cell of the machine: its connections and their belts
\* are removed, then the machine
handleDelete(g, machineId) ==
    removeMachine(
        RemoveConnections(g,
            {id \in DOMAIN g.connections :
                \/ g.connections[id].sourceMachineId = machineId
                \/ g.connections[id].targetMachineId = machineId}),
        machineId)

HandleDelete(machineId) ==
    /\ machineId \in DOMAIN grid.machines
    /\ grid' = handleDelete(grid, machineId)
    /\ UNCHANGED <<placed, optVars>>

NextEdit ==
    \/ \E c \in ConnectionIds, ti \in 0 .. 2 : HandleConnect(c, ti)
    \/ \E id \in {"m1", "m2", "m3"} : HandleDelete(id)
    \/ \E id \in {"m1", "m2", "m3"} : RemoveMachine(id)

SpecEdit == InitEdit /\ [][NextEdit]_vars

\* ------------------------------------------------------------------------
\* Two 3x3 machines on a 10 x 10 grid, A at (0,0) facing NORTH and B at
\* (0,6), wired with the editor's connect tool from outputs of A to inputs
\* of B
\* ------------------------------------------------------------------------
ScenarioA == [id |-> "A", type |-> "3x3", x |-> 0, y |-> 0, orientation |-> "NORTH"]

ScenarioB(orientation) ==
    [id |-> "B", type |-> "3x3", x |-> 0, y |-> 6, orientation |-> orientation]

ScenarioGrid(orientation) ==
    placeMachine(placeMachine(createGrid(10, 10), ScenarioA).grid,
                 ScenarioB(orientation)).grid

InitScenario ==
    /\ grid \in {ScenarioGrid(o) : o \in Orientation}
    /\ placed = 2
    /\ OptIdle

\* handleConnect after both clicks, on output si of machine sourceId and
\* input ti of machine targetId, with c the generated id: the connection is
\* entered in the map, routed, and taken out of the map again when no path
\* is found. The grid is returned as it was when a check refuses the click.
handleConnect(g, c, sourceId, si, targetId, ti) ==
    IF \/ c \in DOMAIN g.connections
       \/ sourceId = targetId
       \/ isPortInUse(g, sourceId, si, "output")
       \/ isPortInUse(g, targetId, ti, "input")
    THEN g
    ELSE Only({Only({IF path.found
                     THEN applyBeltPath(withConnection, c, path.segments)
                     ELSE g :
                path \in {findBeltPath(withConnection,
                    getMachinePorts(StoredMachine(g, sourceId)).outputs[si + 1],
                    getMachinePorts(StoredMachine(g, targetId)).inputs[ti + 1], c)}}) :
            withConnection \in {[g EXCEPT !.connections = MapSet(@, c,
                [id |-> c, sourceMachineId |-> sourceId, sourcePortIndex |-> si,
                 targetMachineId |-> targetId, targetPortIndex |-> ti])]}})

ConnectAToB(c, si, ti) ==
    /\ grid' = handleConnect(grid, c, "A", si, "B", ti)
    /\ UNCHANGED <<placed, optVars>>

NextScenario == \E c \in ConnectionIds, si \in 0 .. 2, ti \in 0 .. 2 : ConnectAToB(c, si, ti)

SpecScenario == InitScenario /\ [][NextScenario]_vars

\* ------------------------------------------------------------------------
\* Placing and removing machines on a grid that carries belts. The layout
\* starts with m1 and the anchor m2 in the top row; placed counts the calls
\* of placeMachine made on it, each of which places the anchor m3 in the
\* second row.
\* ------------------------------------------------------------------------
BeltLayouts ==
    {placeMachine(placeMachine(createGrid(GridW, GridH), RouteMachine1).grid,
                  Anchor("m2", p2)).grid :
        p2 \in {q \in AnchorPoses({"SOUTH"}) : q.y = 0}}

InitBelts ==
    /\ grid \in BeltLayouts
    /\ placed = 0
    /\ OptIdle

\* findBeltPath for the ports of a connection that has no stored path and
\* whose machines are on the grid, then applyBeltPath when a path is returned
ApplyBelt(c, ti) ==
    /\ c \notin DOMAIN grid.beltPaths
    /\ RouteSource(c) \in DOMAIN grid.machines
    /\ "m1" \in DOMAIN grid.machines
    /\ \E path \in {findBeltPath(grid, SourcePort(grid, c), TargetPort(grid, ti), c)} :
          grid' = IF path.found THEN applyBeltPath(grid, c, path.segments) ELSE grid
    /\ UNCHANGED <<placed, optVars>>

NextBelts ==
    \/ \E x \in 0 .. GridW - 1, o \in {"SOUTH", "EAST"} :
          PlaceMachine("m3", "3x1", x, 1, o)
    \/ \E id \in {"m1", "m2", "m3"} : RemoveMachine(id)
    \/ \E c \in ConnectionIds, ti \in 0 .. 2 : ApplyBelt(c, ti)
    \/ \E c \in ConnectionIds : Unroute(c)

SpecBelts == InitBelts /\ [][NextBelts]_vars

\* ------------------------------------------------------------------------
\* runOptimizer (optimizer.ts:185-599) as a process: pc is its position,
\* input its arguments (the grid with its machine and connection arrays in
\* map order, and the configuration), the other variables its locals.
\* Every score is scaled by ten.
\* ------------------------------------------------------------------------
FixedMachines == buildFixedMachineMap(input.machines)

\* shouldStopForBudget (optimizer.ts:212): expired records that
\* performance.now() has reached budgetDeadline
shouldStopForBudget_never == FALSE

shouldStopForBudget == input.mode = "deep" /\ expired

Baseline == [grid |-> cloneGridState(input.grid), score |-> evaluateGrid(input.grid)]

\* phase1Restarts, phase2Attempts and localPolishPasses: 1 by default in
\* normal mode, MaxRestarts in deep mode
Restarts == IF input.mode = "deep" THEN MaxRestarts ELSE 1

\* config.useExplorationSeeds && !hasFixedMachines, the option at its default
\* (true in normal mode, false in deep mode)
useExplorationSeeds == input.mode = "normal" /\ DOMAIN FixedMachines = {}

\* The exploration seeds come before the current layout.
NumSeeds == IF useExplorationSeeds THEN ExplorationSeeds + 1 ELSE 1

Machine(id, type, x, y, orientation) ==
    [id |-> id, type |-> type, x |-> x, y |-> y, orientation |-> orientation]

Conn(id, source, target, ti) ==
    [id |-> id, sourceMachineId |-> source, sourcePortIndex |-> 0,
     targetMachineId |-> target, targetPortIndex |-> ti]

Factory(ms, conns) == [machines |-> ms, connections |-> conns]

\* m1 at (1, 3) fed on its input ports 0 and 2 by the anchor m2 in the top
\* left corner and the anchor m3 on the right edge
PriorityFactory ==
    Factory(<<Machine("m1", "3x3", 1, 3, "NORTH"), Machine("m2", "3x1", 0, 0, "SOUTH"),
              Machine("m3", "3x1", 4, 1, "WEST")>>,
            <<Conn("c1", "m2", "m1", 0), Conn("c2", "m3", "m1", 2)>>)

\* The poses a placement heuristic, an SA run, the compaction or the
\* orientation polish may give a movable machine: two of the poses that
\* the code can produce, (1, 2) and (1, 3), and for the factory with an
\* anchor on either side (0, 2) and (1, 3)
CandidatePoses ==
    IF input.machines = PriorityFactory.machines
    THEN {[x |-> 0, y |-> 2, orientation |-> "NORTH"],
          [x |-> 1, y |-> 3, orientation |-> "NORTH"]}
    ELSE [x : {1}, y : {2, 3}, orientation : {"NORTH"}]

\* Every way of giving the movable machines of a layout a candidate pose;
\* machines whose id is fixed stay where they are.
Placements(machines) ==
    LET movable == {i \in DOMAIN machines : machines[i].id \notin DOMAIN FixedMachines}
    IN  {[i \in DOMAIN machines |->
             IF i \in movable
             THEN [machines[i] EXCEPT !.x = f[i].x, !.y = f[i].y,
                                      !.orientation = f[i].orientation]
             ELSE machines[i]] : f \in [movable -> CandidatePoses]}

\* What runSAAsync, compactLayout and optimizeOrientationsUsingAStar can
\* return for a layout: the layout itself or a valid placement of it.
Layouts(machines) ==
    {machines} \cup {l \in Placements(machines) : ValidPlacement(l)}

SeedLayouts ==
    IF useExplorationSeeds /\ round < ExplorationSeeds
    THEN Placements(input.machines)
    ELSE {input.machines}

\* optimizer.ts:192-333: copies of the machines and connections, the early
\* return for a grid without machines, the baseline, the archive load
Start ==
    /\ pc = "start"
    /\ IF Len(input.machines) = 0
       THEN /\ pc' = "done"
            /\ bestFallback' = Baseline
            /\ UNCHANGED <<connections, phaseBest, eliteArchive>>
       ELSE /\ pc' = "phase0"
            /\ bestFallback' = Baseline
            /\ connections' = input.connections
            /\ phaseBest' = input.machines
            /\ \E loaded \in {LoadArchive(<<>>,
                                  IF input.persistEliteArchive
                                  THEN parseIncomingEliteArchive(input.incomingEliteArchive)
                                  ELSE <<>>,
                                  1, FixedMachines, ElitePoolSize)} :
                  eliteArchive' = rememberElite(loaded, input.machines, input.connections,
                                                FixedMachines, ElitePoolSize)
    /\ UNCHANGED <<rng, totalIter, searchVars>>
    /\ UNCHANGED <<grid, placed, input, phaseBestScore, phaseSeed, round, expired,
                   bestSeedFastScore, bestSeedRoutedScore>>

\* optimizer.ts:362-391: one seed of Phase 0
Phase0Seed(seed) ==
    /\ pc = "phase0"
    /\ round < NumSeeds
    /\ ~shouldStopForBudget
    /\ seed \in SeedLayouts
    /\ \E candidateMachines \in {enforceFixedMachines(seed, FixedMachines)} :
       \E candidateConnections \in {optimizePortAssignments(candidateMachines, connections)} :
       \E scored \in {buildGrid(candidateMachines, candidateConnections)},
          fastScore \in {scorePlacement(candidateMachines, candidateConnections, TRUE)} :
       \E routedScore \in {IF scored.ok THEN evaluateGrid(scored.grid).totalScore
                            ELSE Infinity} :
          LET takeRouted == scored.ok /\ routedScore < bestSeedRoutedScore
              hasRoutedSeed == takeRouted \/ bestSeedRoutedScore < Infinity
              takeFast == ~hasRoutedSeed /\ fastScore < bestSeedFastScore
          IN  /\ bestFallback' = rememberFallback(bestFallback, candidateMachines,
                                                  candidateConnections, FixedMachines)
              /\ eliteArchive' = rememberElite(eliteArchive, candidateMachines,
                                               candidateConnections, FixedMachines,
                                               ElitePoolSize)
              /\ bestSeedRoutedScore' = IF takeRouted THEN routedScore
                                        ELSE bestSeedRoutedScore
              /\ bestSeedFastScore' = IF takeFast THEN fastScore ELSE bestSeedFastScore
              /\ phaseBest' = IF takeRouted \/ takeFast THEN candidateMachines
                              ELSE IF round = 0 THEN seed
                              ELSE phaseBest
              /\ connections' = IF takeRouted \/ takeFast THEN candidateConnections
                                ELSE connections
    /\ round' = round + 1
    /\ UNCHANGED <<rng, totalIter, searchVars>>
    /\ UNCHANGED <<grid, placed, pc, input, phaseBestScore, phaseSeed, expired>>

\* optimizer.ts:402-405: Phase 1 starts from the chosen seed
Phase1Begin ==
    /\ pc = "phase0"
    /\ round = NumSeeds \/ shouldStopForBudget
    /\ pc' = "phase1"
    /\ phaseBestScore' = scorePlacement(phaseBest, connections, TRUE)
    /\ phaseSeed' = phaseBest
    /\ round' = 0
    /\ UNCHANGED <<rng, totalIter, searchVars>>
    /\ UNCHANGED <<grid, placed, input, connections, phaseBest, expired, bestFallback,
                   eliteArchive, bestSeedFastScore, bestSeedRoutedScore>>

\* What an SA run on phaseSeed can do next: a try_different_port move that
\* changes the connections, or return one of its layouts
SAOptions ==
    {<<"move", layout, k>> : layout \in Layouts(phaseSeed), k \in 1 .. 2}
    \cup {<<"return", result, 0>> : result \in Layouts(phaseSeed)}

\* The SA run takes the option its next draw selects; with Math.random every
\* option is possible.
SADraw(option) ==
    \/ ~rng.seeded
    \/ option = Nth(SAOptions, RandomIndex(NextRandom(rng), Cardinality(SAOptions)))

\* perturbSmart's try_different_port move (optimizer.ts:2446-2448) inside an
\* SA run or a restart kick: it rewrites the shared connection array in
\* place, on the layout the run is then looking at.
SAPortMove(layout, k) ==
    /\ pc \in {"phase1", "phase2", "polishSA"}
    /\ round < Restarts
    /\ ~shouldStopForBudget
    /\ layout \in Layouts(phaseSeed)
    /\ connections' = tryDifferentPortAssignment(layout, connections, k,
                                                 DOMAIN FixedMachines)
    /\ connections' # connections \/ rng.seeded
    /\ SADraw(<<"move", layout, k>>)
    /\ rng' = NextRandom(rng)
    /\ UNCHANGED totalIter
    /\ UNCHANGED searchVars
    /\ UNCHANGED <<grid, placed, pc, input, phaseBest, phaseBestScore, phaseSeed, round,
                   expired, bestFallback, eliteArchive, bestSeedFastScore,
                   bestSeedRoutedScore>>

\* optimizer.ts:407-448 and 462-503: one restart of Phase 1 or one attempt of
\* Phase 2; result is what runSAAsync resolves to, idx the archive entry
\* that tryArchiveRestartSeed picks.
SAReturn(result, idx) ==
    /\ pc \in {"phase1", "phase2"}
    /\ round < Restarts
    /\ ~shouldStopForBudget
    /\ result \in Layouts(phaseSeed)
    /\ SADraw(<<"return", result, 0>>)
    /\ totalIter' = totalIter + 1
    /\ \E phaseMachines \in {enforceFixedMachines(result, FixedMachines)} :
       \E archive \in {rememberElite(eliteArchive, phaseMachines, connections,
                                     FixedMachines, ElitePoolSize)},
          candidateScore \in {scorePlacement(phaseMachines, connections, pc = "phase1")} :
          LET better == candidateScore < phaseBestScore
              best == IF better THEN phaseMachines ELSE phaseBest
          IN  /\ bestFallback' = rememberFallback(bestFallback, phaseMachines,
                                                  connections, FixedMachines)
              /\ eliteArchive' = archive
              /\ phaseBest' = best
              /\ phaseBestScore' = IF better THEN candidateScore ELSE phaseBestScore
              /\ IF input.mode = "deep" /\ round + 1 < Restarts /\ Len(archive) > 0
                 THEN /\ idx \in DOMAIN archive
                      /\ rng.seeded =>
                             idx = 1 + ArchiveIndex(NextRandom(NextRandom(rng)),
                                                    Len(archive))
                      /\ rng' = NextRandom(NextRandom(rng))
                      /\ phaseSeed' = archive[idx].machines
                      /\ connections' = archive[idx].connections
                 ELSE /\ idx = 1
                      /\ rng' = NextRandom(rng)
                      /\ phaseSeed' = best
                      /\ UNCHANGED connections
    /\ round' = round + 1
    /\ UNCHANGED searchVars
    /\ UNCHANGED <<grid, placed, pc, input, expired, bestSeedFastScore,
                   bestSeedRoutedScore>>

\* optimizer.ts:451-460 and 506-513: the port assignment phase that closes
\* Phase 1 (Phase 1.5) or Phase 2 (Phase 3)
PortAssignmentPhase ==
    /\ pc \in {"phase1", "phase2"}
    /\ round = Restarts \/ shouldStopForBudget
    /\ \E assigned \in {optimizePortAssignments(phaseBest, connections)},
          portOpt \in {enforceFixedMachines(phaseBest, FixedMachines)} :
          /\ connections' = assigned
          /\ bestFallback' = rememberFallback(bestFallback, portOpt, assigned,
                                              FixedMachines)
          /\ eliteArchive' = rememberElite(eliteArchive, portOpt, assigned,
                                           FixedMachines, ElitePoolSize)
          /\ phaseBest' = portOpt
          /\ phaseSeed' = portOpt
          /\ phaseBestScore' = IF pc = "phase1"
                               THEN scorePlacement(portOpt, assigned, FALSE)
                               ELSE phaseBestScore
    /\ pc' = IF pc = "phase1" THEN "phase2" ELSE "phase4"
    /\ round' = 0
    /\ UNCHANGED <<rng, totalIter, searchVars>>
    /\ UNCHANGED <<grid, placed, input, expired, bestSeedFastScore, bestSeedRoutedScore>>

\* optimizer.ts:515-523: one polish pass up to its SA run; compacted is what
\* compactLayout returns, oriented what optimizeOrientationsUsingAStar
\* returns for it.
PolishPass(compacted, oriented) ==
    /\ pc = "phase4"
    /\ round < Restarts
    /\ ~shouldStopForBudget
    /\ compacted \in Layouts(enforceFixedMachines(phaseBest, FixedMachines))
    /\ oriented \in Layouts(compacted)
    /\ \E afterCompact \in {rememberFallback(bestFallback, compacted, connections,
                                              FixedMachines)},
          archive \in {rememberElite(eliteArchive, compacted, connections,
                                     FixedMachines, ElitePoolSize)},
          polished \in {enforceFixedMachines(oriented, FixedMachines)} :
          /\ bestFallback' = rememberFallback(afterCompact, polished, connections,
                                              FixedMachines)
          /\ eliteArchive' = rememberElite(archive, polished, connections,
                                           FixedMachines, ElitePoolSize)
          /\ phaseBest' = polished
          /\ phaseSeed' = polished
    /\ IF input.mode = "deep" /\ round + 1 < Restarts
       THEN pc' = "polishSA" /\ UNCHANGED round
       ELSE pc' = "phase4" /\ round' = round + 1
    /\ UNCHANGED <<rng, totalIter, searchVars>>
    /\ UNCHANGED <<grid, placed, input, connections, phaseBestScore, expired,
                   bestSeedFastScore, bestSeedRoutedScore>>

\* optimizer.ts:525-555: the SA run of a deep polish pass
PolishSAReturn(result) ==
    /\ pc = "polishSA"
    /\ result \in Layouts(phaseSeed)
    /\ SADraw(<<"return", result, 0>>)
    /\ rng' = NextRandom(rng)
    /\ totalIter' = totalIter + 1
    /\ \E polishedBySA \in {enforceFixedMachines(result, FixedMachines)} :
          /\ bestFallback' = rememberFallback(bestFallback, polishedBySA, connections,
                                              FixedMachines)
          /\ eliteArchive' = rememberElite(eliteArchive, polishedBySA, connections,
                                           FixedMachines, ElitePoolSize)
          /\ phaseBest' = polishedBySA
          /\ phaseSeed' = polishedBySA
    /\ pc' = "phase4"
    /\ round' = round + 1
    /\ UNCHANGED searchVars
    /\ UNCHANGED <<grid, placed, input, connections, phaseBestScore, expired,
                   bestSeedFastScore, bestSeedRoutedScore>>

\* optimizer.ts:569-598: the final layout, the baseline floor, the return
Finish ==
    /\ pc = "phase4"
    /\ round = Restarts \/ shouldStopForBudget
    /\ \E polished \in {enforceFixedMachines(phaseBest, FixedMachines)},
          baseline \in {Baseline} :
          /\ eliteArchive' = rememberElite(eliteArchive, polished, connections,
                                           FixedMachines, ElitePoolSize)
          /\ bestFallback' = finalFallback(bestFallback, polished, connections, baseline)
    /\ pc' = "done"
    /\ UNCHANGED <<rng, totalIter, searchVars>>
    /\ UNCHANGED <<grid, placed, input, connections, phaseBest, phaseBestScore, phaseSeed,
                   round, expired, bestSeedFastScore, bestSeedRoutedScore>>

\* shouldStopForBudget (optimizer.ts:212) starts to return true: the
\* wall-clock deadline of a deep run passes
TimeBudgetExpires ==
    /\ input.mode = "deep"
    /\ pc \in {"phase0", "phase1", "phase2", "phase4", "polishSA"}
    /\ ~expired
    /\ expired' = TRUE
    /\ UNCHANGED <<rng, totalIter, searchVars>>
    /\ UNCHANGED <<grid, placed, pc, input, connections, phaseBest, phaseBestScore,
                   phaseSeed, round, bestFallback, eliteArchive, bestSeedFastScore,
                   bestSeedRoutedScore>>

\* --- the inputs of the run -------------------------------------------
\* m1 at (1, y) fed on the input ports t1 and t2 by the anchor m2 above it
\* and the anchor m3 in the corner
StackedFactory(y, t1, t2) ==
    Factory(<<Machine("m1", "3x3", 1, y, "NORTH"), Machine("m2", "3x1", 1, 0, "SOUTH"),
              Machine("m3", "3x1", 0, 0, "EAST")>>,
            <<Conn("c1", "m2", "m1", t1), Conn("c2", "m3", "m1", t2)>>)

\* m1 at (1, 3) with both anchors next to its first input port
CornerFactory(t1, t2) ==
    Factory(<<Machine("m1", "3x3", 1, 3, "NORTH"), Machine("m2", "3x1", 0, 0, "SOUTH"),
              Machine("m3", "3x1", 0, 1, "EAST")>>,
            <<Conn("c1", "m2", "m1", t1), Conn("c2", "m3", "m1", t2)>>)

\* Routable factories whose connections use different ports, the two
\* anchors alone, m1 alone, and the empty grid
OptFactories ==
    {StackedFactory(2, 1, 0), StackedFactory(2, 2, 0), StackedFactory(3, 1, 2),
     StackedFactory(3, 0, 2), CornerFactory(0, 1),
     Factory(<<Machine("m2", "3x1", 1, 0, "SOUTH"), Machine("m3", "3x1", 0, 0, "EAST")>>,
             <<>>),
     Factory(<<Machine("m1", "3x3", 1, 3, "NORTH")>>, <<>>),
     Factory(<<>>, <<>>)}

\* A factory with an incoming archive of one entry, as
\* parseIncomingEliteArchive admits it: an entry saved while the anchor m2
\* stood elsewhere, an entry saved before m3 and c2 existed, and an entry
\* whose two connections end on the same input port.
ArchivedFactories ==
    {<<StackedFactory(3, 1, 2),
       Factory(<<Machine("m1", "3x3", 1, 2, "NORTH"), Machine("m2", "3x1", 2, 0, "SOUTH"),
                 Machine("m3", "3x1", 0, 0, "EAST")>>,
               <<Conn("c1", "m2", "m1", 1), Conn("c2", "m3", "m1", 0)>>)>>,
     <<StackedFactory(3, 1, 2),
       Factory(<<Machine("m1", "3x3", 1, 2, "NORTH"), Machine("m2", "3x1", 1, 0, "SOUTH")>>,
               <<Conn("c1", "m2", "m1", 1)>>)>>,
     <<CornerFactory(0, 1), CornerFactory(0, 0)>>}

\* An incoming archive longer than the pool: the same factory with m1 at
\* y = 1, 2, 3, 1, ...
RECURSIVE LongArchive(_)
LongArchive(n) ==
    IF n = 0 THEN <<>>
    ELSE LongArchive(n - 1) \o <<StackedFactory(1 + ((n - 1) % 3), 1, 0)>>

OptInput(f, mode, persist, incoming) ==
    [machines |-> f.machines, connections |-> f.connections,
     grid |-> buildGrid(f.machines, f.connections).grid,
     mode |-> mode, persistEliteArchive |-> persist, incomingEliteArchive |-> incoming,
     seed |-> <<>>]

\* The input grid is the routed factory. Deep-search chunks persist the
\* archive; a normal run may be asked to as well.
OptInputs ==
    {OptInput(f, mode, FALSE, <<>>) : f \in OptFactories, mode \in {"normal", "deep"}}
    \cup {OptInput(a[1], "deep", TRUE, <<a[2]>>) : a \in ArchivedFactories}
    \cup {OptInput(StackedFactory(3, 1, 2), "normal", TRUE, <<StackedFactory(2, 1, 0)>>)}
    \cup {OptInput(StackedFactory(3, 1, 0), "deep", TRUE, LongArchive(ElitePoolSize + 1))}

\* optimizer.ts:190-191 and 204: the run has its random stream and has
\* counted no iteration
RunStarts ==
    /\ pc = "start"
    /\ rng = createSeededRandom(input.seed)
    /\ totalIter = 0

InitOpt ==
    /\ grid = createGrid(GridW, GridH)
    /\ placed = 0
    /\ input \in OptInputs
    /\ RunStarts
    /\ SearchIdle
    /\ connections = <<>>
    /\ phaseBest = <<>>
    /\ phaseBestScore = Infinity
    /\ phaseSeed = <<>>
    /\ round = 0
    /\ expired = FALSE
    /\ bestFallback = [grid |-> createGrid(GridW, GridH), score |-> evaluateGrid(createGrid(GridW, GridH))]
    /\ eliteArchive = <<>>
    /\ bestSeedFastScore = Infinity
    /\ bestSeedRoutedScore = Infinity

NextOpt ==
    \/ Start
    \/ \E seed \in Placements(input.machines) \cup {input.machines} : Phase0Seed(seed)
    \/ Phase1Begin
    \/ \E layout \in Layouts(phaseSeed), k \in 1 .. 2 : SAPortMove(layout, k)
    \/ \E result \in Layouts(phaseSeed), idx \in 1 .. ElitePoolSize : SAReturn(result, idx)
    \/ PortAssignmentPhase
    \/ \E compacted \in Layouts(enforceFixedMachines(phaseBest, FixedMachines)) :
          \E oriented \in Layouts(compacted) : PolishPass(compacted, oriented)
    \/ \E result \in Layouts(phaseSeed) : PolishSAReturn(result)
    \/ Finish
    \/ TimeBudgetExpires

SpecOpt == InitOpt /\ [][NextOpt]_vars

\* runOptimizer on the factory with an anchor on either side
InitPriority ==
    /\ grid = createGrid(GridW, GridH)
    /\ placed = 0
    /\ input \in {OptInput(PriorityFactory, mode, FALSE, <<>>) : mode \in {"normal", "deep"}}
    /\ RunStarts
    /\ SearchIdle
    /\ connections = <<>>
    /\ phaseBest = <<>>
    /\ phaseBestScore = Infinity
    /\ phaseSeed = <<>>
    /\ round = 0
    /\ expired = FALSE
    /\ bestFallback = [grid |-> createGrid(GridW, GridH), score |-> evaluateGrid(createGrid(GridW, GridH))]
    /\ eliteArchive = <<>>
    /\ bestSeedFastScore = Infinity
    /\ bestSeedRoutedScore = Infinity

SpecPriority == InitPriority /\ [][NextOpt]_vars

\* ------------------------------------------------------------------------
\* A caller that invokes runOptimizer again once a call has returned, as the
\* benchmarks and the deep search do. history holds what the earlier calls
\* returned.
\* ------------------------------------------------------------------------
MaxCalls == 2

\* optimizer.ts:594-598: the value a call returns
Result == [grid |-> bestFallback.grid, score |-> bestFallback.score, iterations |-> totalIter]

\* optimizer.ts:584-587: config.outgoingEliteArchive after the call
OutgoingEliteArchive ==
    IF input.persistEliteArchive /\ Len(input.machines) > 0
    THEN serializeEliteArchive(eliteArchive) ELSE <<>>

\* What is known of a call after it returned: its result, whether
\* shouldStopForBudget had become true, and the archive it wrote
CallRecord ==
    [result |-> Result, budgetReached |-> expired, outgoingEliteArchive |-> OutgoingEliteArchive]

\* The next call of runOptimizer, with nextInput as its arguments; its
\* locals start as those of the first call did
CallAgain(nextInput) ==
    /\ pc = "done"
    /\ Len(history) + 1 < MaxCalls
    /\ history' = Append(history, CallRecord)
    /\ input' = nextInput
    /\ pc' = "start"
    /\ rng' = createSeededRandom(nextInput.seed)
    /\ totalIter' = 0
    /\ connections' = <<>>
    /\ phaseBest' = <<>>
    /\ phaseBestScore' = Infinity
    /\ phaseSeed' = <<>>
    /\ round' = 0
    /\ expired' = FALSE
    /\ bestFallback' = [grid |-> createGrid(GridW, GridH), score |-> evaluateGrid(createGrid(GridW, GridH))]
    /\ eliteArchive' = <<>>
    /\ bestSeedFastScore' = Infinity
    /\ bestSeedRoutedScore' = Infinity

\* The same grid, configuration and seed once more
RunAgain ==
    /\ CallAgain(input)
    /\ UNCHANGED <<grid, placed, isOptimizerRunning, deepSearchActive,
                   stopDeepSearchRequested, deepSearchEliteArchive, bestScore, idleMs,
                   cycles, configVars>>

\* What a heuristic that draws no random number (a Phase 0 placement,
\* compactLayout, optimizeOrientationsUsingAStar) returns among the layouts
\* it can return: a function of its arguments, here the layout it was given
\* when that is one of them
Heuristic(machines, layouts) ==
    IF machines \in layouts THEN machines ELSE CHOOSE l \in layouts : TRUE

\* Runs with a numeric seed on the factories that have anchors
Seeds == {1, 2, 3}

SeededInputs ==
    {[OptInput(f, mode, FALSE, <<>>) EXCEPT !.seed = <<n>>] :
        f \in {StackedFactory(2, 1, 0), StackedFactory(3, 1, 2), CornerFactory(0, 1)},
        mode \in {"normal", "deep"}, n \in Seeds}

InitSeeded ==
    /\ grid = createGrid(GridW, GridH)
    /\ placed = 0
    /\ input \in SeededInputs
    /\ RunStarts
    /\ SearchIdle
    /\ connections = <<>>
    /\ phaseBest = <<>>
    /\ phaseBestScore = Infinity
    /\ phaseSeed = <<>>
    /\ round = 0
    /\ expired = FALSE
    /\ bestFallback = [grid |-> createGrid(GridW, GridH), score |-> evaluateGrid(createGrid(GridW, GridH))]
    /\ eliteArchive = <<>>
    /\ bestSeedFastScore = Infinity
    /\ bestSeedRoutedScore = Infinity

NextSeeded ==
    \/ Start
    \/ \E seed \in {Heuristic(input.machines, SeedLayouts)} : Phase0Seed(seed)
    \/ Phase1Begin
    \/ \E layout \in Layouts(phaseSeed), k \in 1 .. 2 : SAPortMove(layout, k)
    \/ \E result \in Layouts(phaseSeed), idx \in 1 .. ElitePoolSize : SAReturn(result, idx)
    \/ PortAssignmentPhase
    \/ \E compacted \in {Heuristic(enforceFixedMachines(phaseBest, FixedMachines),
                                    Layouts(enforceFixedMachines(phaseBest, FixedMachines)))} :
          \E oriented \in {Heuristic(compacted, Layouts(compacted))} :
             PolishPass(compacted, oriented)
    \/ \E result \in Layouts(phaseSeed) : PolishSAReturn(result)
    \/ Finish
    \/ TimeBudgetExpires
    \/ RunAgain

SpecSeeded == InitSeeded /\ [][NextSeeded]_vars

\* The steps of a run that starts from a routed grid and an archive of
\* layouts that an earlier run routed, where no port is used twice, so that
\* the port move of SAPortMove finds no better pair and leaves the
\* connections alone.
NextChunk ==
    \/ Start
    \/ \E seed \in {input.machines} : Phase0Seed(seed)
    \/ Phase1Begin
    \/ \E result \in Layouts(phaseSeed), idx \in 1 .. ElitePoolSize : SAReturn(result, idx)
    \/ PortAssignmentPhase
    \/ \E compacted \in Layouts(enforceFixedMachines(phaseBest, FixedMachines)) :
          \E oriented \in Layouts(compacted) : PolishPass(compacted, oriented)
    \/ \E result \in Layouts(phaseSeed) : PolishSAReturn(result)
    \/ Finish
    \/ TimeBudgetExpires

\* ------------------------------------------------------------------------
\* runOptimizer normalizes the configuration it is given (optimizer.ts:190).
\* The caller supplies a mode, one option and, with it, largeMoveRate.
\* ------------------------------------------------------------------------
PositiveIntegerOptions ==
    {"phase1Restarts", "phase2Attempts", "localPolishPasses", "elitePoolSize",
     "clusterMoveMinSize", "clusterMoveMaxSize", "adaptiveWindow", "repairBeamWidth"}

NonNegativeIntegerOptions ==
    {"adaptiveWarmupIterations", "adaptiveStagnationResetWindow",
     "largeMoveCooldownAfterImprove"}

ClampedOptions ==
    {"largeMoveRate", "largeMoveRateEarly", "largeMoveRateLate", "criticalNetRate",
     "adaptiveMaxOperatorProb", "adaptiveFlattenFactor"}

BooleanOptions ==
    {"useExplorationSeeds", "eliteDiversityHash", "adaptiveOps", "persistEliteArchive"}

OptionNames ==
    PositiveIntegerOptions \cup NonNegativeIntegerOptions \cup ClampedOptions
    \cup BooleanOptions \cup {"timeBudgetMs", "eliteMinDistance"}

SuppliedNumbers == {-150, -1, 0, 5, 50, 65, 100, 250, 1200}

SuppliedValues ==
    {Absent, Str("x"), Bool(TRUE), Bool(FALSE)} \cup NonFinite
    \cup {Num(n) : n \in SuppliedNumbers}

RawConfigs ==
    {[k \in OptionNames \cup {"mode", "seed"} |->
         IF k = "mode" THEN mode
         ELSE IF k = option THEN value
         ELSE IF k = "largeMoveRate" THEN rate
         ELSE Absent] :
       mode \in {Absent, Str("normal"), Str("deep"), Num(100)},
       option \in OptionNames \cup {"seed"},
       value \in SuppliedValues,
       rate \in {Absent, Num(50), Num(65)}}

InitConfig ==
    /\ grid = createGrid(GridW, GridH)
    /\ placed = 0
    /\ OptIdle

\* const config = normalizeOptimizerConfig(_config)
NormalizeConfig(c) ==
    /\ pc = "idle"
    /\ rawConfig = <<>>
    /\ rawConfig' = c
    /\ config' = normalizeOptimizerConfig(c)
    /\ UNCHANGED <<grid, placed, pc, input, connections, phaseBest, phaseBestScore,
                   phaseSeed, round, expired, bestFallback, eliteArchive,
                   bestSeedFastScore, bestSeedRoutedScore, rng, totalIter, history,
                   isOptimizerRunning, deepSearchActive, stopDeepSearchRequested,
                   deepSearchEliteArchive, bestScore, idleMs, cycles, sa>>

\* The configuration is a local of runOptimizer and ends with the call;
\* cycles counts the calls that have returned
ConfigCallReturns ==
    /\ pc = "idle"
    /\ rawConfig # <<>>
    /\ cycles < MaxCalls
    /\ rawConfig' = <<>>
    /\ config' = <<>>
    /\ cycles' = cycles + 1
    /\ UNCHANGED <<grid, placed, pc, input, connections, phaseBest, phaseBestScore,
                   phaseSeed, round, expired, bestFallback, eliteArchive,
                   bestSeedFastScore, bestSeedRoutedScore, rng, totalIter, history,
                   isOptimizerRunning, deepSearchActive, stopDeepSearchRequested,
                   deepSearchEliteArchive, bestScore, idleMs, sa>>

NextConfig ==
    \/ \E c \in RawConfigs : NormalizeConfig(c)
    \/ ConfigCallReturns

SpecConfig == InitConfig /\ [][NextConfig]_vars

\* ------------------------------------------------------------------------
\* Archive continuity: a deep run that persists its elite archive, and a
\* second call on the same grid that is handed the outgoing archive of the
\* first (optimizer.ts:328-333 and 584-587).
\* ------------------------------------------------------------------------
ArchiveInputs ==
    {OptInput(f, "deep", TRUE, <<>>) :
        f \in {StackedFactory(3, 1, 2), StackedFactory(3, 0, 2)}}

InitArchive ==
    /\ grid = createGrid(GridW, GridH)
    /\ placed = 0
    /\ input \in ArchiveInputs
    /\ RunStarts
    /\ SearchIdle
    /\ connections = <<>>
    /\ phaseBest = <<>>
    /\ phaseBestScore = Infinity
    /\ phaseSeed = <<>>
    /\ round = 0
    /\ expired = FALSE
    /\ bestFallback = [grid |-> createGrid(GridW, GridH), score |-> evaluateGrid(createGrid(GridW, GridH))]
    /\ eliteArchive = <<>>
    /\ bestSeedFastScore = Infinity
    /\ bestSeedRoutedScore = Infinity

\* The caller reads config.outgoingEliteArchive and calls runOptimizer again
\* with it as incomingEliteArchive, after a first run that met no deadline
\* and improved on its input
RunWithArchive ==
    /\ input.persistEliteArchive
    /\ ~expired
    /\ Result.score.totalScore < Baseline.score.totalScore
    /\ CallAgain([input EXCEPT !.incomingEliteArchive = OutgoingEliteArchive])
    /\ UNCHANGED <<grid, placed, isOptimizerRunning, deepSearchActive,
                   stopDeepSearchRequested, deepSearchEliteArchive, bestScore, idleMs,
                   cycles, configVars>>

NextArchive ==
    \/ NextChunk
    \/ RunWithArchive

SpecArchive == InitArchive /\ [][NextArchive]_vars

\* ------------------------------------------------------------------------
\* Search Deeper: runAutoOptimize('deep') (scoring.ts:883-1027) runs
\* runOptimizer chunk after chunk on the editor's grid. idleMs is
\* performance.now() - lastImprovementAt in units of the plateau budget
\* divided by DEEP_SEARCH_PLATEAU_STOP_MS.
\* ------------------------------------------------------------------------
MaxChunks == 2

\* The plateau budget in ticks of the model's clock
DEEP_SEARCH_PLATEAU_STOP_MS == 2

\* Array.from(grid.machines.values()) and Array.from(grid.connections.values());
\* the maps of the model's grids are filled in the order m1, m2, m3 and c1, c2
RECURSIVE ValuesOf(_, _, _)
ValuesOf(map, keys, i) ==
    IF i > Len(keys) THEN <<>>
    ELSE IF keys[i] \in DOMAIN map
         THEN <<map[keys[i]]>> \o ValuesOf(map, keys, i + 1)
         ELSE ValuesOf(map, keys, i + 1)

MachinesOf(g) ==
    ValuesOf([id \in DOMAIN g.machines |-> StoredMachine(g, id)], <<"m1", "m2", "m3">>, 1)

ConnectionsOf(g) == ValuesOf(g.connections, <<"c1", "c2">>, 1)

\* chunkConfig (scoring.ts:940-959) with the grid of the editor. The grid
\* has anchors, so that useExplorationSeeds: true changes nothing
\* (optimizer.ts:336).
ChunkInput(g, archive) ==
    [machines |-> MachinesOf(g), connections |-> ConnectionsOf(g), grid |-> g,
     mode |-> "deep", persistEliteArchive |-> TRUE, incomingEliteArchive |-> archive,
     seed |-> <<>>]

\* The editor holds a routed factory with anchors and no command is running
InitDeep ==
    /\ grid \in {buildGrid(f.machines, f.connections).grid :
                    f \in {StackedFactory(3, 0, 2), StackedFactory(2, 2, 0)}}
    /\ placed = 3
    /\ OptIdle

\* A call of runOptimizer begins: its locals as in InitOpt
CallStarts(nextInput) ==
    /\ input' = nextInput
    /\ pc' = "start"
    /\ rng' = createSeededRandom(nextInput.seed)
    /\ totalIter' = 0
    /\ connections' = <<>>
    /\ phaseBest' = <<>>
    /\ phaseBestScore' = Infinity
    /\ phaseSeed' = <<>>
    /\ round' = 0
    /\ expired' = FALSE
    /\ bestFallback' = [grid |-> createGrid(GridW, GridH), score |-> evaluateGrid(createGrid(GridW, GridH))]
    /\ eliteArchive' = <<>>
    /\ bestSeedFastScore' = Infinity
    /\ bestSeedRoutedScore' = Infinity

\* runAutoOptimize('deep') up to the first await (scoring.ts:884-961)
StartDeepSearch ==
    /\ pc = "idle"
    /\ ~isOptimizerRunning
    /\ DOMAIN grid.machines # {}
    /\ deepSearchEliteArchive' = <<>>
    /\ isOptimizerRunning' = TRUE
    /\ deepSearchActive' = TRUE
    /\ stopDeepSearchRequested' = FALSE
    /\ bestScore' = evaluateGrid(grid).totalScore
    /\ idleMs' = 0
    /\ cycles' = 1
    /\ CallStarts(ChunkInput(grid, <<>>))
    /\ UNCHANGED <<grid, placed, history, configVars>>

\* The loop goes round again: the plateau test (scoring.ts:987-990) and the
\* loop condition (scoring.ts:937)
DeepSearchContinues_ignoresStop(stopRequested, idle) == idle < DEEP_SEARCH_PLATEAU_STOP_MS

DeepSearchContinues(stopRequested, idle) ==
    ~stopRequested /\ idle < DEEP_SEARCH_PLATEAU_STOP_MS

\* A chunk returns (scoring.ts:973-994) and the loop either starts the next
\* chunk or ends, and then the finally block runs (scoring.ts:1015-1019)
ChunkCompletes ==
    /\ pc = "done"
    /\ deepSearchActive
    /\ grid' = Result.grid
    /\ UNCHANGED <<placed, history, configVars>>
    /\ \E improved \in {Result.score.totalScore < bestScore},
          archive \in {OutgoingEliteArchive} :
          /\ bestScore' = IF improved THEN Result.score.totalScore ELSE bestScore
          /\ idleMs' = IF improved THEN 0 ELSE idleMs
          /\ IF DeepSearchContinues(stopDeepSearchRequested, idleMs')
             THEN /\ cycles < MaxChunks
                  /\ cycles' = cycles + 1
                  /\ deepSearchEliteArchive' = archive
                  /\ CallStarts(ChunkInput(Result.grid, archive))
                  /\ UNCHANGED <<isOptimizerRunning, deepSearchActive,
                                 stopDeepSearchRequested>>
             ELSE /\ isOptimizerRunning' = FALSE
                  /\ deepSearchActive' = FALSE
                  /\ stopDeepSearchRequested' = FALSE
                  /\ deepSearchEliteArchive' = <<>>
                  /\ pc' = "idle"
                  /\ UNCHANGED <<cycles, input, rng, totalIter, connections, phaseBest,
                                 phaseBestScore, phaseSeed, round, expired, bestFallback,
                                 eliteArchive, bestSeedFastScore, bestSeedRoutedScore>>

\* requestDeepSearchStop (scoring.ts:1029-1036)
RequestDeepSearchStop ==
    /\ deepSearchActive
    /\ ~stopDeepSearchRequested
    /\ stopDeepSearchRequested' = TRUE
    /\ UNCHANGED <<grid, placed, pc, input, connections, phaseBest, phaseBestScore,
                   phaseSeed, round, expired, bestFallback, eliteArchive,
                   bestSeedFastScore, bestSeedRoutedScore, rng, totalIter, history,
                   isOptimizerRunning, deepSearchActive, deepSearchEliteArchive,
                   bestScore, idleMs, cycles, configVars>>

\* Time passes while a chunk runs
Tick ==
    /\ deepSearchActive
    /\ pc \notin {"idle", "done"}
    /\ idleMs < DEEP_SEARCH_PLATEAU_STOP_MS
    /\ idleMs' = idleMs + 1
    /\ UNCHANGED <<grid, placed, pc, input, connections, phaseBest, phaseBestScore,
                   phaseSeed, round, expired, bestFallback, eliteArchive,
                   bestSeedFastScore, bestSeedRoutedScore, rng, totalIter, history,
                   isOptimizerRunning, deepSearchActive, stopDeepSearchRequested,
                   deepSearchEliteArchive, bestScore, cycles, configVars>>

NextDeep ==
    \/ StartDeepSearch
    \/ NextChunk
    \/ ChunkCompletes
    \/ RequestDeepSearchStop
    \/ Tick

SpecDeep == InitDeep /\ [][NextDeep]_vars

\* ------------------------------------------------------------------------
\* Editing while a deep search runs. The mouse handlers of the editor
\* (scoring.ts:583-606, 739-764) do not look at isOptimizerRunning; they run
\* whenever the optimizer has yielded, which it does between its steps.
\* ------------------------------------------------------------------------
InitEditRun ==
    /\ grid = buildGrid(StackedFactory(3, 0, 2).machines,
                        StackedFactory(3, 0, 2).connections).grid
    /\ placed = 3
    /\ OptIdle

\* handleDelete on a machine while runOptimizer is awaited
DeleteWhileRunning(machineId) ==
    /\ isOptimizerRunning
    /\ pc \notin {"idle", "done"}
    /\ HandleDelete(machineId)

NextEditRun ==
    \/ StartDeepSearch
    \/ NextChunk
    \/ ChunkCompletes
    \/ RequestDeepSearchStop
    \/ \E id \in {"m3"} : DeleteWhileRunning(id)

SpecEditRun == InitEditRun /\ [][NextEditRun]_vars

\* ------------------------------------------------------------------------
\* One simulated-annealing run: runSAAsync (optimizer.ts:1908-2125) as a
\* process. The variable sa holds the locals of the run; each call of
\* step() is one action, and the run yields with setTimeout(step, 0)
\* between two calls.
\* ------------------------------------------------------------------------
\* Temperatures are held in units of 1/TempScale, cooling rates in
\* thousandths.
TempScale == 100000

Temp(n, hundredths) == n * TempScale + hundredths * (TempScale \div 100)

\* optimizer.ts:113-147, and the profile of the polishing run of deep mode
\* (optimizer.ts:526-535) derived from DEEP_PHASE2_SA
NORMAL_PHASE1_SA ==
    [initialTemp |-> Temp(100, 0), coolingRate |-> 965, minTemp |-> Temp(0, 30),
     iterPerTemp |-> 12, batchSize |-> 50, useFastScore |-> TRUE]

NORMAL_PHASE2_SA ==
    [initialTemp |-> Temp(30, 0), coolingRate |-> 980, minTemp |-> Temp(0, 10),
     iterPerTemp |-> 6, batchSize |-> 30, useFastScore |-> FALSE]

DEEP_PHASE1_SA ==
    [initialTemp |-> Temp(130, 0), coolingRate |-> 975, minTemp |-> Temp(0, 8),
     iterPerTemp |-> 16, batchSize |-> 72, useFastScore |-> TRUE]

DEEP_PHASE2_SA ==
    [initialTemp |-> Temp(45, 0), coolingRate |-> 985, minTemp |-> Temp(0, 4),
     iterPerTemp |-> 10, batchSize |-> 44, useFastScore |-> FALSE]

PolishSA(profile) ==
    [profile EXCEPT
        !.initialTemp = Max(Temp(8, 0), (profile.initialTemp * 55) \div 100),
        !.iterPerTemp = Max(4, (profile.iterPerTemp * 65) \div 100),
        !.batchSize = Max(14, (profile.batchSize * 65) \div 100)]

\* The profiles runOptimizer passes to runSAAsync in each mode
SAProfiles(mode) ==
    IF mode = "deep" THEN {DEEP_PHASE1_SA, DEEP_PHASE2_SA, PolishSA(DEEP_PHASE2_SA)}
    ELSE {NORMAL_PHASE1_SA, NORMAL_PHASE2_SA}

\* temp *= config.coolingRate (optimizer.ts:2081), rounded to the unit
CoolOnce(temp, coolingRate) == temp - (temp * (1000 - coolingRate) + 500) \div 1000

\* Math.min(config.initialTemp * 0.5, temp * 3) (optimizer.ts:2110)
ReheatTemp_toInitial(initialTemp, temp) == initialTemp

ReheatTemp(initialTemp, temp) == Min(initialTemp \div 2, temp * 3)

\* if (stagnation > 5 && temp > config.minTemp) (optimizer.ts:2109)
ShouldReheat_atFive(stagnation, temp, minTemp) == stagnation >= 5 /\ temp > minTemp

ShouldReheat(stagnation, temp, minTemp) == stagnation > 5 /\ temp > minTemp

\* random() < Math.exp(-delta / temp) (optimizer.ts:2052): random() is in
\* [0, 1) and can be 0, and Math.exp underflows to 0 below about -745.
\* Scores are scaled by ten.
ExpUnderflow == 745

AcceptPossible(delta, temp) ==
    delta < 0 \/ delta * 10 < ExpUnderflow * (temp \div (TempScale \div 100))

\* The runs of the model start on these factories
SAFactories == {StackedFactory(3, 1, 2)}

\* Every connection list tryDifferentPortAssignment can make of conns: the
\* sources have one output port, the targets three input ports
PortAssignments(conns) ==
    {[i \in DOMAIN conns |-> [conns[i] EXCEPT !.targetPortIndex = f[i]]] :
        f \in [DOMAIN conns -> 0 .. 2]}

\* scorePlacement (optimizer.ts:2303-2328) of every layout and connection
\* list a run on startMachines and conns can reach, as a table
PhaseScores(startMachines, conns, useFast) ==
    [q \in Layouts(startMachines) \X PortAssignments(conns) |->
        scorePlacement(q[1], q[2], useFast)] @@ <<>>

\* One iteration of the inner loop (optimizer.ts:2031-2079) from the locals
\* it: the candidate is a layout perturbSmart can return for the current
\* one, or the current one after tryDifferentPortAssignment has rewritten
\* the ports of connection k in the connection list of the run. The
\* candidate is taken or not as the random number allows.
IterationMoves(current, conns, fixedMachineIds) ==
    {[machines |-> l, connections |-> conns] : l \in Layouts(current)}
    \cup {[machines |-> current,
           connections |-> tryDifferentPortAssignment(current, conns, k, fixedMachineIds)] :
            k \in DOMAIN conns}

\* The moves from every layout and connection list a run on startMachines
\* and conns can reach, as a table
MoveTable(startMachines, conns, fixedMachineIds) ==
    [q \in Layouts(startMachines) \X PortAssignments(conns) |->
        IterationMoves(q[1], q[2], fixedMachineIds)] @@ <<>>

Accepted(it, move, candidateScore) ==
    [current |-> move.machines, currentScore |-> candidateScore,
     best |-> IF candidateScore < it.bestScore THEN move.machines ELSE it.best,
     bestScore |-> Min(candidateScore, it.bestScore),
     connections |-> move.connections]

Rejected(it, move) == [it EXCEPT !.connections = move.connections]

MoveOutcomes(it, move, candidateScore, temp) ==
    (IF candidateScore < Infinity /\ AcceptPossible(candidateScore - it.currentScore, temp)
     THEN {Accepted(it, move, candidateScore)} ELSE {})
    \cup (IF candidateScore >= Infinity \/ candidateScore - it.currentScore > 0
          THEN {Rejected(it, move)} ELSE {})

IterationOutcomes(it, temp, scores, moves) ==
    UNION {MoveOutcomes(it, move, scores[<<move.machines, move.connections>>], temp) :
              move \in moves[<<it.current, it.connections>>]}

\* The locals after n iterations at one temperature, from any of the
\* locals in S
RECURSIVE Iterate(_, _, _, _, _)
Iterate(S, n, temp, scores, moves) ==
    IF n = 0 THEN S
    ELSE Only({IF next = S THEN S
               ELSE Iterate(next, n - 1, temp, scores, moves) :
            next \in {UNION {IterationOutcomes(it, temp, scores, moves) : it \in S}}})

\* Every score difference of the table can be accepted at temperature temp
AlwaysAcceptable(scores, temp) ==
    \A p, q \in DOMAIN scores :
        scores[p] < Infinity /\ scores[q] < Infinity
            => AcceptPossible(scores[p] - scores[q], temp)

\* for (let b = 0; b < config.batchSize && temp > config.minTemp; b++)
\* (optimizer.ts:2030)
StageRuns_once(b, temp, profile) == b < 1

StageRuns(b, temp, profile) == b < profile.batchSize /\ temp > profile.minTemp

\* The temperatures temp, temp * coolingRate, temp * coolingRate^2, ... of
\* n successive temperature stages
RECURSIVE Temperatures(_, _, _)
Temperatures(temp, n, coolingRate) ==
    IF n = 0 THEN <<>>
    ELSE IF n = 1 THEN <<temp>>
    ELSE Only({first \o Temperatures(CoolOnce(first[Len(first)], coolingRate),
                                     n - n \div 2, coolingRate) :
            first \in {Temperatures(temp, n \div 2, coolingRate)}})

\* The number of stages saLoop runs when temps[b + 1] is the temperature at
\* the test of batch b; the temperatures only fall, so the stages that pass
\* the test are the first ones.
StageCount(temps, profile) ==
    Cardinality({b \in 0 .. Len(temps) - 2 : StageRuns(b, temps[b + 1], profile)})

\* The locals after the k temperature stages from stage `from` on, each of
\* iterPerTemp iterations, from any of the locals in S. When the first
\* half of the stages leaves the set as it was and no acceptance of the run
\* depends on the temperature, every further run of as many stages leaves
\* it as it is too.
RECURSIVE AfterStages(_, _, _, _, _, _, _)
AfterStages(S, temps, from, k, profile, scores, moves) ==
    IF k = 0 THEN S
    ELSE IF k = 1 THEN Iterate(S, profile.iterPerTemp, temps[from], scores, moves)
    ELSE Only({
        IF mid = S /\ AlwaysAcceptable(scores, profile.minTemp)
        THEN AfterStages(S, temps, from + 2 * (k \div 2), k - 2 * (k \div 2), profile,
                         scores, moves)
        ELSE AfterStages(mid, temps, from + k \div 2, k - k \div 2, profile, scores, moves) :
        mid \in {AfterStages(S, temps, from, k \div 2, profile, scores, moves)}})

\* The loop saLoop of step() (optimizer.ts:2029-2082): at most batchSize
\* temperature stages of iterPerTemp iterations, each followed by one
\* cooling, while the temperature is above minTemp. The stop predicate may
\* fire in stage stopStage before iteration stopIter, and the loop is left
\* at once (stopStage = -1: it does not fire).
RunLoop(S, temp, profile, scores, moves, stopStage, stopIter) ==
    Only({Only({
        IF stopStage \in 0 .. k - 1
        THEN [outcomes |-> Iterate(AfterStages(S, temps, 1, stopStage, profile, scores,
                                               moves),
                                   stopIter, temps[stopStage + 1], scores, moves),
              temp |-> temps[stopStage + 1],
              stages |-> stopStage,
              iterations |-> stopStage * profile.iterPerTemp + stopIter,
              stopped |-> TRUE]
        ELSE [outcomes |-> AfterStages(S, temps, 1, k, profile, scores, moves),
              temp |-> temps[k + 1],
              stages |-> k,
              iterations |-> k * profile.iterPerTemp,
              stopped |-> FALSE] :
        k \in {StageCount(temps, profile)}}) :
        temps \in {Temperatures(temp, profile.batchSize + 1, profile.coolingRate)}})

Locals(s) ==
    [current |-> s.current, currentScore |-> s.currentScore, best |-> s.best,
     bestScore |-> s.bestScore, connections |-> s.connections]

\* optimizer.ts:1917-1929: the locals of a run that starts on startMachines
StartSA(profile, startMachines, conns, fixedMachineIds) ==
    [profile |-> profile, status |-> "running",
     current |-> startMachines,
     currentScore |-> scorePlacement(startMachines, conns, profile.useFastScore),
     best |-> startMachines,
     bestScore |-> scorePlacement(startMachines, conns, profile.useFastScore),
     connections |-> conns,
     \* the phase scores and the moves, tabulated once
     scores |-> PhaseScores(startMachines, conns, profile.useFastScore),
     moves |-> MoveTable(startMachines, conns, fixedMachineIds),
     temp |-> profile.initialTemp, stagnation |-> 0,
     \* what the last call of step() did
     stages |-> 0, iterations |-> 0, cooled |-> profile.initialTemp,
     stagnant |-> 0, reheated |-> FALSE, stepped |-> FALSE,
     hasReheated |-> FALSE]

\* The points of a step at which the deadline of a deep run can pass
StopStages == {0, 1}
StopIters == {1}

\* No optimize command is running, and nothing but the run of the model
\* below has happened
NoInput ==
    [machines |-> <<>>, connections |-> <<>>, grid |-> createGrid(GridW, GridH),
     mode |-> "normal", persistEliteArchive |-> FALSE, incomingEliteArchive |-> <<>>,
     seed |-> <<>>]

RunIdle ==
    /\ grid = createGrid(GridW, GridH)
    /\ placed = 0
    /\ pc = "idle"
    /\ rng = createSeededRandom(<<>>)
    /\ totalIter = 0
    /\ history = <<>>
    /\ isOptimizerRunning = FALSE
    /\ deepSearchActive = FALSE
    /\ stopDeepSearchRequested = FALSE
    /\ deepSearchEliteArchive = <<>>
    /\ bestScore = 0
    /\ idleMs = 0
    /\ cycles = 0
    /\ rawConfig = <<>>
    /\ connections = <<>>
    /\ phaseBest = <<>>
    /\ phaseBestScore = Infinity
    /\ phaseSeed = <<>>
    /\ round = 0
    /\ expired = FALSE
    /\ bestFallback = [grid |-> createGrid(GridW, GridH),
                       score |-> evaluateGrid(createGrid(GridW, GridH))]
    /\ eliteArchive = <<>>
    /\ bestSeedFastScore = Infinity
    /\ bestSeedRoutedScore = Infinity

InitSA ==
    /\ RunIdle
    /\ config = <<>>
    /\ input \in {OptInput(f, mode, FALSE, <<>>) : f \in SAFactories,
                                                    mode \in {"normal", "deep"}}
    /\ sa \in {StartSA(profile, input.machines, input.connections, DOMAIN FixedMachines) :
                  profile \in SAProfiles(input.mode)}

saFrame == <<grid, placed, pc, input, connections, phaseBest, phaseBestScore, phaseSeed,
             round, bestFallback, eliteArchive, bestSeedFastScore, bestSeedRoutedScore,
             rng, totalIter, history, isOptimizerRunning, deepSearchActive,
             stopDeepSearchRequested, deepSearchEliteArchive, bestScore, idleMs, cycles,
             rawConfig, config>>

\* step() finds the stop predicate true on entry (optimizer.ts:2021-2024)
StepStopped ==
    /\ sa # <<>>
    /\ sa.status = "running"
    /\ shouldStopForBudget
    /\ sa' = [sa EXCEPT !.status = "resolved"]
    /\ UNCHANGED <<saFrame, expired>>

\* The rest of step() after saLoop (optimizer.ts:2084-2120) for the run r
\* of the loop that ended in the locals out
AfterLoop(r, out, stopNow) ==
    \E stagnation \in {IF out.bestScore >= sa.bestScore THEN sa.stagnation + 1 ELSE 0} :
    \E reheat \in {ShouldReheat(stagnation, r.temp, sa.profile.minTemp)} :
    \E temp \in {IF reheat THEN ReheatTemp(sa.profile.initialTemp, r.temp) ELSE r.temp} :
        sa' = [sa EXCEPT
            !.current = IF reheat THEN out.best ELSE out.current,
            !.currentScore = IF reheat THEN out.bestScore ELSE out.currentScore,
            !.best = out.best,
            !.bestScore = out.bestScore,
            !.connections = out.connections,
            !.temp = temp,
            !.stagnation = IF reheat THEN 0 ELSE stagnation,
            !.status = IF temp > sa.profile.minTemp /\ ~stopNow
                       THEN "running" ELSE "resolved",
            !.stages = r.stages, !.iterations = r.iterations, !.cooled = r.temp,
            !.stagnant = stagnation, !.reheated = reheat,
            !.stepped = TRUE,
            !.hasReheated = sa.hasReheated \/ reheat]

\* step() with the stop predicate false throughout
Step ==
    /\ sa # <<>>
    /\ sa.status = "running"
    /\ ~shouldStopForBudget
    /\ \E r \in {RunLoop({Locals(sa)}, sa.temp, sa.profile, sa.scores, sa.moves, -1, 0)} :
          \E out \in r.outcomes : AfterLoop(r, out, FALSE)
    /\ UNCHANGED <<saFrame, expired>>

\* step() of a deep run whose deadline passes inside saLoop: the loop is
\* left at once (optimizer.ts:2032)
StepCutShort(stopStage, stopIter) ==
    /\ sa # <<>>
    /\ sa.status = "running"
    /\ input.mode = "deep"
    /\ ~expired
    /\ \E r \in {RunLoop({Locals(sa)}, sa.temp, sa.profile, sa.scores, sa.moves, stopStage,
                         stopIter)} :
          /\ r.stopped
          /\ \E out \in r.outcomes : AfterLoop(r, out, TRUE)
    /\ expired' = TRUE
    /\ UNCHANGED saFrame

\* The deadline of a deep run passes while the run has yielded
DeadlinePasses ==
    /\ sa # <<>>
    /\ sa.status = "running"
    /\ input.mode = "deep"
    /\ ~expired
    /\ expired' = TRUE
    /\ UNCHANGED <<saFrame, sa>>

NextSA ==
    \/ Step
    \/ \E stopStage \in StopStages, stopIter \in StopIters : StepCutShort(stopStage, stopIter)
    \/ DeadlinePasses
    \/ StepStopped

SpecSA == InitSA /\ [][NextSA]_vars

\* The runs in which the stop predicate never fires. setTimeout(step, 0)
\* runs the next call of step(): a scheduled step is taken.
SpecSALive == InitSA /\ [][Step]_vars /\ WF_vars(Step)

\* ------------------------------------------------------------------------
\* Operator dispatch of an SA run: pickOperator (optimizer.ts:1967-2013)
\* and what it calls. Probabilities, rates and weights are held in units of
\* 1/ProbScale; quotients are rounded to the unit, and the tolerances of the
\* code (1e-9, 1e-12), which are far below the unit, become exact tests.
\* ------------------------------------------------------------------------
ProbScale == 10000

\* a / b for a >= 0 and b > 0, rounded to the nearest unit
Div(a, b) == (2 * a + b) \div (2 * b)

SumSeq(values) == SumOver(DOMAIN values, values)

OperatorIds ==
    <<"move_toward_neighbor", "move_to_source", "port_facing_jump", "try_different_port",
      "random_shift", "swap_positions", "rotate_best", "joint_move_rotate",
      "cluster_destroy_repair", "critical_net_focus">>

LargeMoveOperators == {"cluster_destroy_repair", "critical_net_focus"}

\* The base weights 0.2, 0.12, 0.14, 0.12, 0.13, 0.11, 0.09, 0.09 of the
\* eight shared operators before scaling, and their floor 0.02
SharedWeights == <<2000, 1200, 1400, 1200, 1300, 1100, 900, 900>>
SharedFloor == 200

\* optimizer.ts:2375-2402
buildMoveOperators(operatorConfig) ==
    Only({Only({Only({
        [i \in DOMAIN OperatorIds |->
            IF i <= Len(SharedWeights)
            THEN [id |-> OperatorIds[i],
                  baseWeight |-> Div(SharedWeights[i] * Max(500, ProbScale - largeMoveRate),
                                     ProbScale),
                  minProbability |-> SharedFloor]
            ELSE IF OperatorIds[i] = "cluster_destroy_repair"
            THEN [id |-> OperatorIds[i],
                  baseWeight |-> clusterRate,
                  minProbability |-> IF clusterRate > 0
                                     THEN Min(300, Div(clusterRate * 35, 100)) ELSE 0]
            ELSE [id |-> OperatorIds[i],
                  baseWeight |-> criticalNetRate,
                  minProbability |-> IF criticalNetRate > 0
                                     THEN Min(200, Div(criticalNetRate * 35, 100)) ELSE 0]] :
        clusterRate \in {Max(0, largeMoveRate - criticalNetRate)}}) :
        criticalNetRate \in {Max(0, Min(largeMoveRate, operatorConfig.criticalNetRate))}}) :
        largeMoveRate \in {Max(0, Min(6000, operatorConfig.largeMoveRate))}})

\* optimizer.ts:2127-2154. normalizedTemp >= 0.45 is tested on the
\* temperatures themselves.
buildAdaptiveOperatorConfig(base, temp, initialTemp, minTemp, iterationsSinceBest, largeMoveCooldownRemaining) ==
    Only({Only({Only({
        [base EXCEPT
            !.largeMoveRate = scheduledLargeRate,
            !.criticalNetRate =
                IF divisor = 0 THEN 0
                ELSE Div(scheduledLargeRate
                           * Max(0, Min(ProbScale, Div(base.criticalNetRate * ProbScale,
                                                        divisor))),
                         ProbScale)] :
        scheduledLargeRate \in {
            IF largeMoveCooldownRemaining > 0 THEN 0
            ELSE IF iterationsSinceBest
                      > Max(30, (base.adaptiveStagnationResetWindow * 6) \div 10)
            THEN Max(IF inEarlyPhase THEN base.largeMoveRateEarly
                     ELSE base.largeMoveRateLate, base.largeMoveRateEarly)
            ELSE IF inEarlyPhase THEN base.largeMoveRateEarly
            ELSE base.largeMoveRateLate}}) :
        inEarlyPhase \in {20 * Max(0, temp - minTemp) >= 9 * Max(1, initialTemp - minTemp)}}) :
        divisor \in {Max(base.largeMoveRate, base.criticalNetRate)}})

\* optimizer.ts:2170-2178
normalizePositiveWeights(values) ==
    Only({IF total <= 0 THEN [i \in DOMAIN values |-> Div(ProbScale, Len(values))]
          ELSE [i \in DOMAIN values |-> Div(Max(0, values[i]) * ProbScale, total)] :
        total \in {SumOver(DOMAIN values, [i \in DOMAIN values |-> Max(0, values[i])])}})

\* One round of the while loop of normalizeProbabilitiesWithFloorAndCap
\* (optimizer.ts:2198-2221): the share of each free operator
Shares(remaining, free, normalizedRaw) ==
    Only({[i \in free |->
              IF freeWeightSum <= 0 THEN Div(remaining, Cardinality(free))
              ELSE Div(remaining * normalizedRaw[i], freeWeightSum)] :
        freeWeightSum \in {SumOver(free, normalizedRaw)}})

RECURSIVE FillToCap(_, _, _, _, _, _)
FillToCap(probabilities, remaining, free, guard, normalizedRaw, cap) ==
    IF ~(remaining > 0 /\ free # {} /\ guard < Len(probabilities) * 6)
    THEN [probabilities |-> probabilities, remaining |-> remaining]
    ELSE Only({Only({Only({
        IF SumOver(free, [i \in free |-> filled[i] - probabilities[i]]) <= 0
        THEN [probabilities |-> filled, remaining |-> remaining]
        ELSE IF ~\E i \in free : filled[i] >= cap
        THEN [probabilities |-> filled, remaining |-> left]
        ELSE FillToCap(filled, left, {i \in free : filled[i] < cap}, guard + 1,
                       normalizedRaw, cap) :
        left \in {Max(0, ProbScale - SumSeq(filled))}}) :
        filled \in {[i \in DOMAIN probabilities |->
                        IF i \in free
                        THEN probabilities[i] + Min(cap - probabilities[i], shares[i])
                        ELSE probabilities[i]]}}) :
        shares \in {Shares(remaining, free, normalizedRaw)}})

\* optimizer.ts:2180-2236
normalizeProbabilitiesWithFloorAndCap(rawWeights, minProbabilities, maxProbability) ==
    Only({Only({
        IF SumSeq(floors) >= ProbScale THEN normalizePositiveWeights(floors)
        ELSE Only({
            IF filled.remaining > 0
                  /\ {i \in DOMAIN floors : filled.probabilities[i] < cap} # {}
            THEN normalizePositiveWeights(
                    [i \in DOMAIN floors |->
                        IF filled.probabilities[i] < cap
                        THEN filled.probabilities[i]
                             + Min(cap - filled.probabilities[i],
                                   Div(filled.remaining,
                                       Cardinality({j \in DOMAIN floors :
                                                       filled.probabilities[j] < cap})))
                        ELSE filled.probabilities[i]])
            ELSE normalizePositiveWeights(filled.probabilities) :
            filled \in {FillToCap(floors, Max(0, ProbScale - SumSeq(floors)),
                                  {i \in DOMAIN floors : floors[i] < cap}, 0,
                                  normalizePositiveWeights(rawWeights), cap)}}) :
        floors \in {[i \in DOMAIN minProbabilities |->
                        Max(0, Min(cap, minProbabilities[i]))]}}) :
        cap \in {Max(Div(ProbScale, Len(rawWeights)), Min(ProbScale, maxProbability))}})

\* The probabilities pickOperator computes (optimizer.ts:1967-2009) for
\* the locals of the run. rewardBoost[i] is 1 + log1p(reward) of operator i
\* in tenths; it is at least 1.
isAdaptationWarm(operatorConfig, iter) ==
    operatorConfig.adaptiveOps /\ iter >= operatorConfig.adaptiveWarmupIterations

OperatorProbabilities(operatorConfig, profile, locals, rewardBoost) ==
    Only({Only({Only({
        IF /\ isAdaptationWarm(operatorConfig, locals.iter)
           /\ operatorConfig.adaptiveStagnationResetWindow > 0
           /\ locals.iterationsSinceBest >= operatorConfig.adaptiveStagnationResetWindow
           /\ operatorConfig.adaptiveFlattenFactor > 0
        THEN Only({normalizePositiveWeights(
                [i \in DOMAIN probabilities |->
                    Div(probabilities[i] * (ProbScale - operatorConfig.adaptiveFlattenFactor)
                        + baselineProbabilities[i] * operatorConfig.adaptiveFlattenFactor,
                        ProbScale)]) :
            baselineProbabilities \in {normalizeProbabilitiesWithFloorAndCap(
                [j \in DOMAIN activeOperators |-> activeOperators[j].baseWeight],
                [j \in DOMAIN activeOperators |-> activeOperators[j].minProbability],
                ProbScale)}})
        ELSE probabilities :
        probabilities \in {normalizeProbabilitiesWithFloorAndCap(
            [j \in DOMAIN activeOperators |->
                IF isAdaptationWarm(operatorConfig, locals.iter)
                THEN Div(activeOperators[j].baseWeight * rewardBoost[j], 10)
                ELSE activeOperators[j].baseWeight],
            [j \in DOMAIN activeOperators |-> activeOperators[j].minProbability],
            IF isAdaptationWarm(operatorConfig, locals.iter)
            THEN operatorConfig.adaptiveMaxOperatorProb ELSE ProbScale)}}) :
        activeOperators \in {buildMoveOperators(activeOperatorConfig)}}) :
        activeOperatorConfig \in {buildAdaptiveOperatorConfig(
            operatorConfig, locals.temp, profile.initialTemp, profile.minTemp,
            locals.iterationsSinceBest, locals.largeMoveCooldownRemaining)}})

\* pickProbabilityIndex (optimizer.ts:2238-2247): the first index whose
\* running sum reaches random(); random() is in [0, 1) and can be 0, which
\* picks the first index.
pickProbabilityIndex(probabilities) ==
    {1} \cup {i \in DOMAIN probabilities : probabilities[i] > 0}

\* The operator configurations of the runs of the model, inside the ranges
\* normalizeOptimizerConfig leaves (optimizer.ts:659-703)
MaxOperatorProbs == {1200, 3500}

\* Flattening off (the default), or on from two iterations without a new best
FlattenSettings == {<<MAX_SAFE_INTEGER, 0>>, <<2, 5000>>}

OperatorConfigs ==
    {[largeMoveRate |-> 2000,
      criticalNetRate |-> 500,
      largeMoveRateEarly |-> 3000,
      largeMoveRateLate |-> 1000,
      adaptiveOps |-> adaptiveOps,
      adaptiveWarmupIterations |-> warmup,
      adaptiveMaxOperatorProb |-> maxProb,
      adaptiveStagnationResetWindow |-> flatten[1],
      adaptiveFlattenFactor |-> flatten[2],
      largeMoveCooldownAfterImprove |-> 2] :
        adaptiveOps \in BOOLEAN, warmup \in {0, 2}, maxProb \in MaxOperatorProbs,
        flatten \in FlattenSettings}

\* The reward boosts of the model: no gain yet, or one operator with a
\* recent gain
RewardBoosts ==
    {[i \in DOMAIN OperatorIds |-> 10]}
    \cup {[i \in DOMAIN OperatorIds |-> IF i = k THEN 25 ELSE 10] : k \in {1}}

\* The temperatures of the model: the start of a run, and a late one
DispatchTemps == {DEEP_PHASE1_SA.initialTemp, Temp(10, 0)}

\* The number of iterations a run of the model performs
MaxPicks == 3

\* The run is at its start, or 40 iterations on with the last new best 31
\* iterations back
DispatchStarts == {<<0, 0>>, <<40, 31>>}

InitDispatch ==
    /\ RunIdle
    /\ input = NoInput
    /\ config \in OperatorConfigs
    /\ sa \in {[profile |-> DEEP_PHASE1_SA,
                 temp |-> DEEP_PHASE1_SA.initialTemp,
                 iter |-> start[1],
                 iterationsSinceBest |-> start[2],
                 largeMoveCooldownRemaining |-> 0,
                 probabilities |-> <<>>,
                 chosenOperator |-> "",
                 picks |-> 0] : start \in DispatchStarts}

\* One iteration of saLoop as far as the dispatch goes (optimizer.ts:
\* 2033-2079): iter++, pickOperator, and the counters after the candidate
\* has been judged (improvement: it became the best layout, by a major
\* margin or not)
Iteration(rewardBoost, improvement) ==
    /\ sa # <<>>
    /\ sa.picks < MaxPicks
    /\ \E probabilities \in {OperatorProbabilities(
              config, sa.profile, [sa EXCEPT !.iter = sa.iter + 1], rewardBoost)} :
       \E index \in pickProbabilityIndex(probabilities) :
       \E cooldown \in {IF improvement = "major" /\ config.largeMoveCooldownAfterImprove > 0
                        THEN config.largeMoveCooldownAfterImprove
                        ELSE sa.largeMoveCooldownRemaining} :
          sa' = [sa EXCEPT
              !.iter = sa.iter + 1,
              !.probabilities = probabilities,
              !.chosenOperator = OperatorIds[index],
              !.iterationsSinceBest = IF improvement = "none" THEN @ + 1 ELSE 0,
              !.largeMoveCooldownRemaining = IF cooldown > 0 THEN cooldown - 1 ELSE cooldown,
              !.picks = sa.picks + 1]
    /\ UNCHANGED <<saFrame, expired>>

\* temp *= config.coolingRate, many stages on
StagesPass ==
    /\ sa # <<>>
    /\ \E temp \in DispatchTemps :
          /\ temp < sa.temp
          /\ sa' = [sa EXCEPT !.temp = temp]
    /\ UNCHANGED <<saFrame, expired>>

NextDispatch ==
    \/ \E rewardBoost \in RewardBoosts, improvement \in {"none", "best", "major"} :
          Iteration(rewardBoost, improvement)
    \/ StagesPass

SpecDispatch == InitDispatch /\ [][NextDispatch]_vars

\* ------------------------------------------------------------------------
\* Properties of the router
\* ------------------------------------------------------------------------
RouteInputs == ConnectionIds \X (0 .. 2)

\* The path that find_belt_path returns in the current grid for input q
FoundPath(q) == findBeltPath(grid, SourcePort(grid, q[1]), TargetPort(grid, q[2]), q[1])

WellFormedPath(g, sourcePort, targetPort, segments) ==
    LET n == Len(segments)
        start == getPortExternalTile(sourcePort)
        endT == getPortExternalTile(targetPort)
    IN  /\ n >= 1
        /\ segments[1].x = start.x /\ segments[1].y = start.y
        /\ segments[n].x = endT.x /\ segments[n].y = endT.y
        /\ \A i \in 1 .. n - 1 :
              LET a == segments[i]
                  b == segments[i + 1]
              IN  /\ a.toDirection \in Direction
                  /\ b.x = a.x + directionToDelta(a.toDirection).dx
                  /\ b.y = a.y + directionToDelta(a.toDirection).dy
                  /\ b.fromDirection = oppositeDirection(a.toDirection)
        /\ \A i \in 1 .. n :
              /\ (segments[i].fromDirection = "NONE") <=> (i = 1)
              /\ (segments[i].toDirection = "NONE") <=> (i = n)
              /\ isInBounds(grid, segments[i].x, segments[i].y)
              /\ g.cells[<<segments[i].x, segments[i].y>>].type # "MACHINE"

\* C7: every path returned by find_belt_path starts on the tile outside the
\* source port, ends on the tile outside the target port, moves between
\* 4-adjacent tiles with toDirection the step taken and the next
\* fromDirection its opposite, has a null fromDirection only on its first and
\* a null toDirection only on its last segment, and never lies on a MACHINE
\* tile or outside the grid.
C7_PathStructure ==
    \A q \in RouteInputs :
        FoundPath(q).found =>
            WellFormedPath(grid, SourcePort(grid, q[1]), TargetPort(grid, q[2]),
                           FoundPath(q).segments)

\* A returned path that has a corner and runs next to or across another
\* connection's belt
C7_Witness ==
    \E q \in RouteInputs :
        /\ FoundPath(q).found
        /\ Len(FoundPath(q).segments) >= 4
        /\ \E i \in DOMAIN FoundPath(q).segments : isCornerSegment(FoundPath(q).segments[i])
        /\ \E d \in DOMAIN grid.beltPaths : d # q[1]

\* The search states <<x, y, direction>> that permitted moves lead to
RECURSIVE PermittedReach(_, _, _, _)
PermittedReach(g, excl, frontier, seen) ==
    IF frontier = {} THEN seen
    ELSE LET next ==
                 UNION {{<<s[1] + directionToDelta(dir).dx,
                           s[2] + directionToDelta(dir).dy, dir>> :
                            dir \in {d \in Direction :
                                        MovePermitted(g, excl, s[1], s[2], s[3], d)}} :
                        s \in frontier}
             fresh == next \ seen
         IN  PermittedReach(g, excl, fresh, seen \cup fresh)

\* The start or end tile rules a search out (pathfinder.ts:337-362)
EndpointRefused(g, sourcePort, targetPort, c) ==
    LET start == getPortExternalTile(sourcePort)
        endT == getPortExternalTile(targetPort)
        excl == buildPathOccupiedInfo(g, c)
    IN  \/ ~isInBounds(grid, start.x, start.y)
        \/ ~isInBounds(grid, endT.x, endT.y)
        \/ g.cells[<<start.x, start.y>>].type = "MACHINE"
        \/ g.cells[<<endT.x, endT.y>>].type = "MACHINE"
        \/ getEffectiveOccupiedTileInfo(g, excl, start.x, start.y).cornerCount > 0
        \/ getEffectiveOccupiedTileInfo(g, excl, endT.x, endT.y).cornerCount > 0

EndReachable(g, sourcePort, targetPort, c) ==
    LET start == getPortExternalTile(sourcePort)
        endT == getPortExternalTile(targetPort)
        s0 == <<start.x, start.y, sourcePort.approachDirection>>
        reach == PermittedReach(g, buildPathOccupiedInfo(g, c), {s0}, {s0})
    IN  \E s \in reach : s[1] = endT.x /\ s[2] = endT.y

\* C8: find_belt_path returns no-path exactly when the start or end tile is
\* out of bounds, a MACHINE tile or corner-occupied, or when no sequence of
\* permitted moves leads from the start tile to the end tile.
C8_NoPathExactly ==
    \A q \in RouteInputs :
        LET sp == SourcePort(grid, q[1])
            tp == TargetPort(grid, q[2])
        IN  (~FoundPath(q).found) <=>
                (EndpointRefused(grid, sp, tp, q[1]) \/ ~EndReachable(grid, sp, tp, q[1]))

\* A search that is not refused at its end points and exhausts the queue
C8_Witness ==
    \E q \in RouteInputs :
        LET sp == SourcePort(grid, q[1])
            tp == TargetPort(grid, q[2])
        IN  /\ ~EndpointRefused(grid, sp, tp, q[1])
            /\ ~EndReachable(grid, sp, tp, q[1])
            /\ ~FoundPath(q).found
            /\ DOMAIN grid.beltPaths # {}

\* ------------------------------------------------------------------------
\* Properties of the belt bookkeeping
\* ------------------------------------------------------------------------
\* The segments <<connection id, index>> of the stored paths that lie on t
SegmentsOn(g, t) ==
    {ci \in UNION {{<<c, i>> : i \in DOMAIN g.beltPaths[c]} : c \in DOMAIN g.beltPaths} :
        g.beltPaths[ci[1]][ci[2]].x = t[1] /\ g.beltPaths[ci[1]][ci[2]].y = t[2]}

SegmentAt(g, ci) == g.beltPaths[ci[1]][ci[2]]

\* The axis a stored segment runs along.  The only segment of a one-tile path
\* has neither direction: that belt runs from its source port straight into
\* the facing target port, along the source port's approach direction.
RunAxis(g, ci) ==
    IF getSegmentAxis(SegmentAt(g, ci)) # "NONE" THEN getSegmentAxis(SegmentAt(g, ci))
    ELSE directionToAxis(SourcePort(g, ci[1]).approachDirection)

\* C4: in a grid built by routing connections one at a time, whenever two
\* belt paths have a segment on the same tile, neither segment is a corner
\* and the two run along orthogonal axes, one horizontal and one vertical.
C4_AxisPolicy ==
    \A t \in Tiles :
        \A a \in SegmentsOn(grid, t), b \in SegmentsOn(grid, t) :
            a[1] # b[1] =>
                /\ ~isCornerSegment(SegmentAt(grid, a))
                /\ ~isCornerSegment(SegmentAt(grid, b))
                /\ {RunAxis(grid, a), RunAxis(grid, b)} = {"H", "V"}

\* Two routed belts cross on a tile that both run straight through
C4_Witness ==
    \E t \in Tiles :
        \E a \in SegmentsOn(grid, t), b \in SegmentsOn(grid, t) :
            /\ a[1] # b[1]
            /\ getSegmentAxis(SegmentAt(grid, a)) = "H"
            /\ getSegmentAxis(SegmentAt(grid, b)) = "V"
            /\ SegmentAt(grid, a).fromDirection # "NONE"
            /\ SegmentAt(grid, a).toDirection # "NONE"
            /\ SegmentAt(grid, b).fromDirection # "NONE"
            /\ SegmentAt(grid, b).toDirection # "NONE"

ObservedUsage(g, t) ==
    [cornerCount |->
         Cardinality({ci \in SegmentsOn(g, t) : isCornerSegment(SegmentAt(g, ci))}),
     horizontalCount |->
         Cardinality({ci \in SegmentsOn(g, t) :
             ~isCornerSegment(SegmentAt(g, ci)) /\ getSegmentAxis(SegmentAt(g, ci)) = "H"}),
     verticalCount |->
         Cardinality({ci \in SegmentsOn(g, t) :
             ~isCornerSegment(SegmentAt(g, ci)) /\ getSegmentAxis(SegmentAt(g, ci)) = "V"})]

RecordedUsage(g, t) ==
    IF t \in DOMAIN g.beltTileUsage THEN g.beltTileUsage[t] ELSE createEmptyOccupiedTileInfo

\* C5: for every tile the recorded usage equals the corner, horizontal and
\* vertical segment counts over all stored belt paths.
C5_UsageMatchesPaths ==
    \A t \in Tiles : RecordedUsage(grid, t) = ObservedUsage(grid, t)

C9_OwnPathAbsent ==
    \A q \in RouteInputs :
        q[1] \in DOMAIN grid.beltPaths =>
            FoundPath(q) =
                LET g == removeBeltPath(grid, q[1])
                IN  findBeltPath(g, SourcePort(g, q[1]), TargetPort(g, q[2]), q[1])

\* ------------------------------------------------------------------------
\* Properties of machine placement
\* ------------------------------------------------------------------------
\* C10: after any sequence of place and remove operations a cell is tagged
\* MACHINE with owner m exactly when m is in the machine map and the cell
\* lies in m's oriented footprint.
C10_CellsMatchMachines ==
    \A t \in Tiles, m \in MachineIds :
        (grid.cells[t].type = "MACHINE" /\ grid.cells[t].machineId = m)
            <=> (m \in DOMAIN grid.machines /\ t \in Footprint(StoredMachine(grid, m)))

\* ------------------------------------------------------------------------
\* Properties of runOptimizer; the result it returns is bestFallback once
\* pc = "done".
\* ------------------------------------------------------------------------
\* No two connections of a connection map use the same output port or the
\* same input port of a machine
PortsUnique(conns) ==
    \A c, d \in DOMAIN conns :
        c # d =>
            /\ ~(/\ conns[c].sourceMachineId = conns[d].sourceMachineId
                 /\ conns[c].sourcePortIndex = conns[d].sourcePortIndex)
            /\ ~(/\ conns[c].targetMachineId = conns[d].targetMachineId
                 /\ conns[c].targetPortIndex = conns[d].targetPortIndex)

\* C1: the total score of the result that run_optimizer returns, which is
\* the routed score of the grid it returns, is at most the routed total
\* score of the input grid, in either mode and with any incoming archive.
C1_NeverWorseThanInput ==
    pc = "done" =>
        /\ bestFallback.score.totalScore <= evaluateGrid(input.grid).totalScore
        /\ evaluateGrid(bestFallback.grid).totalScore = bestFallback.score.totalScore

\* A run ends whose final layout routes and scores worse than the input grid.
C1_Witness ==
    /\ pc = "done"
    /\ buildGrid(phaseBest, connections).ok
    /\ evaluateGrid(buildGrid(phaseBest, connections).grid).totalScore
           > evaluateGrid(input.grid).totalScore

\* C2: every immovable machine of the input grid is in the returned grid
\* with the position and the orientation it has in the input grid.
C2_AnchorsPinned ==
    pc = "done" =>
        \A id \in DOMAIN input.grid.machines :
            isImmovableMachineType(input.grid.machines[id].type) =>
                /\ id \in DOMAIN bestFallback.grid.machines
                /\ bestFallback.grid.machines[id].x = input.grid.machines[id].x
                /\ bestFallback.grid.machines[id].y = input.grid.machines[id].y
                /\ bestFallback.grid.machines[id].orientation
                       = input.grid.machines[id].orientation

\* C3: when no port of the input grid is used by two connections, no port of
\* the returned grid is.
C3_PortsStayUnique ==
    pc = "done" =>
        (PortsUnique(input.grid.connections) => PortsUnique(bestFallback.grid.connections))

TileUsageOf(g) == IF "beltTileUsage" \in DOMAIN g THEN g.beltTileUsage ELSE EmptyMap

NoFurtherSAWork ==
    /\ pc \in {"phase1", "phase2", "phase4"} => pc' \notin {pc, "polishSA"}
    /\ pc \in {"phase1", "phase2", "phase4"} => totalIter' = totalIter
    /\ pc = "polishSA" => pc' = "phase4"

\* C14: in deep mode, once the wall-clock deadline has passed every step of
\* the run leaves its phase without starting an SA batch, restart, attempt
\* or polish pass and never replaces the best recorded layout by a worse
\* one, and what the call returns is that layout, no worse than the input
\* baseline, in the result shape of a normal completion.
C14_StopsAtDeadline ==
    /\ [][(expired /\ pc # "done") =>
             /\ NoFurtherSAWork
             /\ bestFallback'.score.totalScore <= bestFallback.score.totalScore]_vars
    /\ [](pc = "done" =>
             /\ bestFallback.score.totalScore <= Baseline.score.totalScore
             /\ DOMAIN Result = {"grid", "score", "iterations"}
             /\ Result.score = evaluateGrid(Result.grid))

\* A deep run cut short by its deadline has returned a layout that is better
\* than the baseline
C14_Witness ==
    /\ pc = "done"
    /\ expired
    /\ round < Restarts
    /\ Result.score.totalScore < Baseline.score.totalScore

\* C15: when a chunk of a deep search completes, the loop starts another
\* chunk if and only if no stop has been requested and the time since the
\* last improvement is below the plateau budget; otherwise no chunk starts
\* and the search ends with isOptimizerRunning, deepSearchActive and
\* stopDeepSearchRequested cleared. A chunk starts nowhere else while the
\* search runs, so a stop request ends the search after the chunk in flight.
C15_LoopContinuesUnlessStoppedOrIdle ==
    [][/\ (pc = "done" /\ deepSearchActive /\ pc' # "done") =>
              (IF ~stopDeepSearchRequested /\ idleMs' < DEEP_SEARCH_PLATEAU_STOP_MS
               THEN pc' = "start" /\ cycles' = cycles + 1 /\ deepSearchActive'
               ELSE /\ pc' = "idle" /\ cycles' = cycles
                    /\ ~isOptimizerRunning' /\ ~deepSearchActive'
                    /\ ~stopDeepSearchRequested')
       /\ (deepSearchActive /\ pc # "done") => (cycles' = cycles /\ pc' # "idle")
       /\ (deepSearchActive /\ stopDeepSearchRequested) =>
              (stopDeepSearchRequested' \/ ~deepSearchActive')]_vars

C15_Witness ==
    /\ pc = "idle"
    /\ cycles = MaxChunks
    /\ ~isOptimizerRunning /\ ~deepSearchActive /\ ~stopDeepSearchRequested
    /\ idleMs < DEEP_SEARCH_PLATEAU_STOP_MS

\* C16: at every point of a run the elite archive holds at most
\* elitePoolSize entries, also after loading an incoming archive that is
\* longer, and so does the outgoing archive written at the end.
C16_ArchiveWithinPool ==
    /\ Len(eliteArchive) <= ElitePoolSize
    /\ pc = "done" => Len(OutgoingEliteArchive) <= ElitePoolSize

C16_Witness ==
    /\ pc = "done"
    /\ input.persistEliteArchive
    /\ Len(parseIncomingEliteArchive(input.incomingEliteArchive)) > ElitePoolSize
    /\ Len(OutgoingEliteArchive) = ElitePoolSize

\* C17: a deep run with persistEliteArchive that is handed the outgoing
\* archive of a first run on the same input returns a score that is at most
\* the score the first run returned.
C17_ArchiveContinuity ==
    (pc = "done" /\ Len(history) = 1) =>
        Result.score.totalScore <= history[1].result.score.totalScore

\* C18: the breakdown that runOptimizer returns is no priority regression
\* against the breakdown of the input grid: compared on (belts, area,
\* corners) in this order it is not greater.
C18_NoPriorityRegression ==
    pc = "done" => compareScoreBreakdownLexicographic(Result.score, Baseline.score) <= 0

\* The range of a clamped option (optimizer.ts:659-662, 684-695); the upper
\* end of criticalNetRate is the normalized largeMoveRate
RangeOf(option, normalized) ==
    IF option = "largeMoveRate" THEN <<0, 60>>
    ELSE IF option \in {"largeMoveRateEarly", "largeMoveRateLate"} THEN <<0, 70>>
    ELSE IF option = "criticalNetRate" THEN <<0, normalized.largeMoveRate>>
    ELSE IF option = "adaptiveMaxOperatorProb" THEN <<12, Scale>>
    ELSE <<0, Scale>>

\* A supplied value that is invalid for the kind of its option: of the wrong
\* type, not finite, not a positive integer, negative, or outside the range
InvalidFor(option, value, normalized) ==
    /\ value # Absent
    /\ IF option \in BooleanOptions THEN value.type # "boolean"
       ELSE \/ ~IsFiniteNumber(value)
            \/ /\ option \in PositiveIntegerOptions
               /\ (value.value <= 0 \/ value.value % Scale # 0)
            \/ /\ option \in NonNegativeIntegerOptions \cup {"eliteMinDistance"}
               /\ value.value < 0
            \/ option = "timeBudgetMs" /\ value.value <= 0
            \/ /\ option \in ClampedOptions
               /\ \/ value.value < RangeOf(option, normalized)[1]
                  \/ value.value > RangeOf(option, normalized)[2]

\* C20: normalizing never fails, and every option whose supplied value is
\* invalid for its kind takes the default of that option for the selected
\* mode.
C20_InvalidTakesDefault ==
    rawConfig # <<>> =>
        /\ DOMAIN config = OptionNames \cup {"mode", "seed"}
        /\ \A option \in OptionNames :
              InvalidFor(option, rawConfig[option], config) =>
                  config[option] = OptionDefaults(config.mode)[option]

\* What an option falls back to: its default for the mode, and for the
\* early and late rates the normalized largeMoveRate
FallbackOf(option, normalized) ==
    IF option \in {"largeMoveRateEarly", "largeMoveRateLate"}
    THEN normalized.largeMoveRate
    ELSE OptionDefaults(normalized.mode)[option]

\* C20 amended: normalizing never fails. A value of the wrong type or not
\* finite, a time budget that is not positive and a negative minimum
\* distance take the fallback of the option. Every other number is coerced:
\* an integer option takes the number rounded down and raised to at least 1
\* (positive) or 0 (non-negative), a range option the nearest number of its
\* range.
C20_InvalidCoerced ==
    rawConfig # <<>> =>
        /\ DOMAIN config = OptionNames \cup {"mode", "seed"}
        /\ config.mode \in {"normal", "deep"}
        /\ \A option \in OptionNames :
              \E value \in {rawConfig[option]}, out \in {config[option]} :
                 IF option \in BooleanOptions
                 THEN out = IF value.type = "boolean" THEN value.value
                            ELSE FallbackOf(option, config)
                 ELSE IF ~IsFiniteNumber(value) THEN out = FallbackOf(option, config)
                 ELSE IF option = "timeBudgetMs"
                 THEN out = IF value.value <= 0 THEN FallbackOf(option, config)
                            ELSE value.value
                 ELSE IF option = "eliteMinDistance"
                 THEN out = IF value.value < 0 THEN FallbackOf(option, config)
                            ELSE value.value
                 ELSE IF option \in ClampedOptions
                 THEN \E range \in {RangeOf(option, config)} :
                         out = IF value.value < range[1] THEN range[1]
                               ELSE IF value.value > range[2] THEN range[2]
                               ELSE value.value
                 ELSE \E least \in {IF option \in PositiveIntegerOptions
                                    THEN Scale ELSE 0} :
                         /\ out % Scale = 0
                         /\ out >= least
                         /\ value.value >= least =>
                               (out <= value.value /\ value.value - out < Scale)
                         /\ value.value < least => out = least

C20_Witness ==
    /\ rawConfig # <<>>
    /\ rawConfig.mode = Str("deep")
    /\ rawConfig.phase1Restarts = Num(0)
    /\ config.phase1Restarts = Scale
    /\ rawConfig.largeMoveRate = Num(65)
    /\ config.largeMoveRate = 60

\* The connection's stored belt path has a segment on tile t
PathCovers(g, c, t) ==
    /\ c \in DOMAIN g.beltPaths
    /\ \E i \in 1 .. Len(g.beltPaths[c]) :
          g.beltPaths[c][i].x = t[1] /\ g.beltPaths[c][i].y = t[2]

\* C29: after any sequence of place/remove machine and apply/remove belt
\* operations a connection id is listed on a cell exactly when the stored
\* belt path of that connection has a segment on the cell, every such cell
\* is a BELT cell, and no stored segment lies on a MACHINE or EMPTY cell.
C29_CellsMatchBeltPaths ==
    \A t \in Tiles, c \in ConnectionIds :
        /\ Includes(grid.cells[t].beltConnectionIds, c) <=> PathCovers(grid, c, t)
        /\ Includes(grid.cells[t].beltConnectionIds, c) => grid.cells[t].type = "BELT"
        /\ PathCovers(grid, c, t) => grid.cells[t].type = "BELT"

\* The ids and types of the machines of a grid
MachineKinds(g) == {<<id, g.machines[id].type>> : id \in DOMAIN g.machines}

\* The ids and end machines of the connections of a grid
ConnectionEndsOf(g) ==
    {<<id, g.connections[id].sourceMachineId, g.connections[id].targetMachineId>> :
        id \in DOMAIN g.connections}

\* C27: the grid that runOptimizer returns holds exactly the machines of the
\* input grid (same ids and types) and exactly its connections (same ids,
\* same source and target machines), whatever incoming archive is supplied.
C27_SameMachinesAndConnections ==
    pc = "done" =>
        /\ MachineKinds(Result.grid) = MachineKinds(input.grid)
        /\ ConnectionEndsOf(Result.grid) = ConnectionEndsOf(input.grid)

\* C28: a change made to the shared grid while an optimizer run or a
\* deep-search chunk is in flight is still there after the run completes.
\* Here the change is the deletion of a machine: a machine of the grid the
\* run was started on that is no longer on the grid when the run completes
\* is not on the grid afterwards either.
C28_EditsSurviveRun ==
    [][(pc = "done" /\ isOptimizerRunning /\ pc' # "done") =>
           \A id \in DOMAIN input.grid.machines :
               id \notin DOMAIN grid.machines => id \notin DOMAIN grid'.machines]_vars

\* ------------------------------------------------------------------------
\* Properties of a simulated-annealing run
\* ------------------------------------------------------------------------
\* The temperature after k coolings
Cool(temp, k, coolingRate) == Temperatures(temp, k + 1, coolingRate)[k + 1]

\* A call of step() that ran saLoop and in which the stop predicate did not
\* fire
FullStep == sa.status = "running" /\ sa' # sa /\ ~expired'

\* C21: a reheat happens exactly when five consecutive outer batches have
\* ended with no improvement of the best score; it sets the temperature to
\* min(initialTemp / 2, 3 * T), the current layout and score to the best
\* ones and the stagnation counter to zero.
C21_ReheatAfterFive ==
    (sa # <<>> /\ sa.stepped) =>
        /\ sa.reheated <=> sa.stagnant = 5
        /\ sa.reheated =>
              /\ sa.temp = ReheatTemp(sa.profile.initialTemp, sa.cooled)
              /\ sa.current = sa.best
              /\ sa.currentScore = sa.bestScore
              /\ sa.stagnation = 0

\* C21 as the code has it: a reheat happens exactly when the sixth
\* consecutive outer batch has ended with no improvement of the best score
\* and the temperature is still above minTemp; its effects are those of the
\* claim.
C21_ReheatAfterSix ==
    (sa # <<>> /\ sa.stepped) =>
        /\ sa.reheated <=> (sa.stagnant = 6 /\ sa.cooled > sa.profile.minTemp)
        /\ sa.stagnant <= 6
        /\ sa.reheated =>
              /\ sa.temp = Min(sa.profile.initialTemp \div 2, 3 * sa.cooled)
              /\ sa.current = sa.best
              /\ sa.currentScore = sa.bestScore
              /\ sa.stagnation = 0
        /\ ~sa.reheated => sa.temp = sa.cooled /\ sa.stagnation = sa.stagnant

C21_Witness ==
    /\ sa # <<>>
    /\ sa.reheated
    /\ sa.stagnant = 6
    /\ sa.stagnation = 0
    /\ sa.temp = 3 * sa.cooled
    /\ sa.status = "running"

\* C22: the temperature starts at initialTemp and is multiplied by
\* coolingRate exactly once per outer batch, and an outer batch performs
\* batchSize x iterPerTemp inner iterations.
C22_CoolsOncePerBatch ==
    /\ sa # <<>> /\ sa.temp = sa.profile.initialTemp
    /\ [][FullStep =>
            /\ sa'.cooled = CoolOnce(sa.temp, sa.profile.coolingRate)
            /\ sa'.iterations = sa.profile.batchSize * sa.profile.iterPerTemp]_vars

\* C22 as the code has it: the temperature starts at initialTemp and is
\* multiplied by coolingRate once per temperature stage of iterPerTemp
\* iterations; an outer batch runs batchSize stages, or fewer when the
\* temperature has reached minTemp before.
C22_CoolsOncePerStage ==
    /\ sa # <<>> /\ sa.temp = sa.profile.initialTemp
    /\ [][FullStep =>
            /\ sa'.stages \in 1 .. sa.profile.batchSize
            /\ sa'.cooled = Cool(sa.temp, sa'.stages, sa.profile.coolingRate)
            /\ sa'.iterations = sa'.stages * sa.profile.iterPerTemp
            /\ sa'.stages < sa.profile.batchSize => sa'.cooled <= sa.profile.minTemp
            /\ Cool(sa.temp, sa'.stages - 1, sa.profile.coolingRate) > sa.profile.minTemp]_vars

C22_Witness ==
    /\ sa # <<>>
    /\ sa.stepped
    /\ ~expired
    /\ sa.stages = sa.profile.batchSize
    /\ sa.iterations = sa.profile.batchSize * sa.profile.iterPerTemp
    /\ sa.cooled > sa.profile.minTemp

\* C23: every SA run in which the stop predicate never fires terminates
\* with the temperature at minTemp or below, for each built-in profile and
\* whatever reheats happen.
C23_RunTerminates == <>(sa.status = "resolved" /\ sa.temp <= sa.profile.minTemp)

C23_Witness ==
    /\ sa # <<>>
    /\ sa.status = "resolved"
    /\ input.mode = "normal"
    /\ sa.hasReheated
    /\ sa.temp <= sa.profile.minTemp

\* The phase score of a layout with the connection list of the run
PhaseScore(machines) == scorePlacement(machines, sa.connections, sa.profile.useFastScore)

\* C30: at every batch boundary currentScore is the phase score of the
\* current machines and bestScore that of the best machines, both with the
\* current connection list.
C30_ScoresMatchLayouts ==
    (sa # <<>> /\ sa.stepped) =>
        /\ sa.currentScore = PhaseScore(sa.current)
        /\ sa.bestScore = PhaseScore(sa.best)

\* ------------------------------------------------------------------------
\* Properties of the operator dispatch
\* ------------------------------------------------------------------------
\* The probability pickOperator gave the operator id in the last iteration
ProbabilityOf(id) ==
    SumOver({i \in DOMAIN OperatorIds : OperatorIds[i] = id}, sa.probabilities)

\* C24: while the large-move cooldown counter is greater than zero neither
\* cluster_destroy_repair nor critical_net_focus can be selected as the
\* operator of an iteration.
C24_NoLargeMoveInCooldown ==
    [][(sa.largeMoveCooldownRemaining > 0 /\ sa'.iter = sa.iter + 1)
          => sa'.chosenOperator \notin LargeMoveOperators]_vars

\* The base distribution of an operator configuration: the base weights of
\* its operators, with their floors and no cap
BaseDistribution(operatorConfig) ==
    normalizeProbabilitiesWithFloorAndCap(
        [j \in DOMAIN OperatorIds |-> buildMoveOperators(operatorConfig)[j].baseWeight],
        [j \in DOMAIN OperatorIds |-> buildMoveOperators(operatorConfig)[j].minProbability],
        ProbScale)

\* C25: with adaptiveOps false the selection probabilities of every
\* iteration are the base distribution of the configured largeMoveRate,
\* whatever the temperature, the iterations since the last best and the
\* cooldown counter.
C25_FixedWithoutAdaptiveOps ==
    (sa.picks > 0 /\ ~config.adaptiveOps) => sa.probabilities = BaseDistribution(config)

\* Rounding to the unit can move a probability by a few units
ProbTolerance == 5

\* C26: when adaptive dispatch is active (adaptiveOps on and the warm-up
\* over) no operator's selection probability is above
\* adaptiveMaxOperatorProb, stagnation flattening or not.
C26_CapRespected ==
    (sa.picks > 0 /\ isAdaptationWarm(config, sa.iter)) =>
        \A i \in DOMAIN sa.probabilities :
            sa.probabilities[i] <= config.adaptiveMaxOperatorProb + ProbTolerance

\* ------------------------------------------------------------------------
\* Properties of the two-machine scenario
\* ------------------------------------------------------------------------
\* The scenario: B faces SOUTH, nothing is connected yet
ScenarioStart == ScenarioGrid("SOUTH")

\* The connection from output 1 of A to input 1 of B
ScenarioConnection(c) ==
    [id |-> c, sourceMachineId |-> "A", sourcePortIndex |-> 1,
     targetMachineId |-> "B", targetPortIndex |-> 1]

\* The scenario after the connect: the two machines and the one connection
ScenarioConnected ==
    /\ grid.machines = ScenarioStart.machines
    /\ DOMAIN grid.connections = {"c1"}
    /\ grid.connections["c1"] = ScenarioConnection("c1")

\* evaluateGrid reports the given counts and an area of at least 27
ScenarioScore(g, totalBelts, cornerCount) ==
    /\ evaluateGrid(g).totalBelts = totalBelts
    /\ evaluateGrid(g).cornerCount = cornerCount
    /\ evaluateGrid(g).boundingBoxArea >= 27

\* C19: in the scenario (A at (0,0) NORTH, B at (0,6) SOUTH on a 10x10 grid)
\* connecting output 1 of A to input 1 of B routes a belt, and evaluateGrid
\* then reports totalBelts = 4, cornerCount = 0 and an area of at least 27
C19_FourStraightBelts ==
    /\ grid = ScenarioStart =>
          Only({"c1" \in DOMAIN g.beltPaths /\ ScenarioScore(g, 4, 0) :
                   g \in {handleConnect(grid, "c1", "A", 1, "B", 1)}})
    /\ ScenarioConnected => "c1" \in DOMAIN grid.beltPaths /\ ScenarioScore(grid, 4, 0)

\* C19 as the code has it: the inputs of a machine facing SOUTH are on its
\* bottom face, so the belt leaves A downwards, passes B on its right and
\* reaches the tile below input 1 from the right: the connect routes a belt
\* and evaluateGrid reports totalBelts = 11, cornerCount = 3 and an area of
\* at least 27 (it is 40, four columns by ten rows)
C19_BeltAroundB ==
    /\ grid = ScenarioStart =>
          Only({"c1" \in DOMAIN g.beltPaths /\ ScenarioScore(g, 11, 3)
                /\ evaluateGrid(g).boundingBoxArea = 40 :
                   g \in {handleConnect(grid, "c1", "A", 1, "B", 1)}})
    /\ ScenarioConnected =>
          /\ "c1" \in DOMAIN grid.beltPaths
          /\ ScenarioScore(grid, 11, 3)
          /\ evaluateGrid(grid).boundingBoxArea = 40

C19_Witness == ScenarioConnected /\ "c1" \in DOMAIN grid.beltPaths

====
